---- MODULE Spec2Model ----
(***************************************************************************)
(* A model of the PDF compliance analyzer of src/src/server.py.            *)
(*                                                                         *)
(* Python str values are TLA+ strings (Len, SubSeq and \o act on them as   *)
(* on sequences of characters).  A str-or-None value, as a table cell, is  *)
(* Cell(s) or NoneCell.  A float is the IEEE-754 binary64 number           *)
(* [none |-> FALSE, neg, m, e] of value (-1)^neg * m * 2^e, and every      *)
(* operation on floats rounds as the hardware does; the float-or-None      *)
(* result of parse_currency is None when parsing fails.                    *)
(***************************************************************************)
EXTENDS Integers, Sequences, FiniteSets, TLC

VARIABLES pc, args, local, ret

vars == <<pc, args, local, ret>>

(***************************************************************************)
(* Bounds of the model.                                                    *)
(***************************************************************************)
MaxTextLen == 3

MaxPages == 2

MaxTerms == 2

MaxMathPages == 1

MaxStatementPages == 1

MaxSignaturePages == 1

MaxFlagPages == 2

MaxComparePages == 1

MaxSectionPages == 2

(***************************************************************************)
(* Python str operations.                                                  *)
(***************************************************************************)
SetMin(S) == CHOOSE x \in S : \A y \in S : x <= y

SetMax(S) == CHOOSE x \in S : \A y \in S : x >= y

Min2(a, b) == IF a <= b THEN a ELSE b

Max2(a, b) == IF a >= b THEN a ELSE b

Char(s, i) == SubSeq(s, i, i)

\* s[a:b] for 0 <= a, b <= len(s)
Slice(s, a, b) == SubSeq(s, a + 1, b)

\* the 0-based indices at which t occurs in s
Occurrences(s, t) ==
    {i \in 0..(Len(s) - Len(t)) : SubSeq(s, i + 1, i + Len(t)) = t}

\* t in s
Contains(s, t) == Occurrences(s, t) # {}

\* s.find(t)
Find(s, t) == IF Contains(s, t) THEN SetMin(Occurrences(s, t)) ELSE -1

\* s.find(t, start)
FindFrom(s, t, start) ==
    LET occ == {i \in Occurrences(s, t) : i >= start}
    IN  IF occ = {} THEN -1 ELSE SetMin(occ)

\* s.rfind(t, 0, end)
RFind(s, t, end) ==
    LET occ == {i \in Occurrences(s, t) : i + Len(t) <= end}
    IN  IF occ = {} THEN -1 ELSE SetMax(occ)

LowerLetters == "abcdefghijklmnopqrstuvwxyz"

UpperLetters == "ABCDEFGHIJKLMNOPQRSTUVWXYZ"

LetterIndex(letters, c) == {i \in 1..Len(letters) : Char(letters, i) = c}

LowerChar(c) ==
    IF c \in {"A", "B", "C", "D", "E", "F", "G", "H", "I", "J", "K", "L", "M", "N", "O", "P",
              "Q", "R", "S", "T", "U", "V", "W", "X", "Y", "Z"}
    THEN Char(LowerLetters, SetMin(LetterIndex(UpperLetters, c)))
    ELSE c

UpperChar(c) ==
    IF c \in {"a", "b", "c", "d", "e", "f", "g", "h", "i", "j", "k", "l", "m", "n", "o", "p",
              "q", "r", "s", "t", "u", "v", "w", "x", "y", "z"}
    THEN Char(UpperLetters, SetMin(LetterIndex(LowerLetters, c)))
    ELSE c

\* s.lower()
RECURSIVE Lower(_)
Lower(s) ==
    IF Len(s) = 0 THEN s
    ELSE IF Len(s) = 1 THEN LowerChar(s)
    ELSE LET h == Len(s) \div 2
         IN  Lower(SubSeq(s, 1, h)) \o Lower(SubSeq(s, h + 1, Len(s)))

\* s.upper()
RECURSIVE Upper(_)
Upper(s) ==
    IF Len(s) = 0 THEN s
    ELSE IF Len(s) = 1 THEN UpperChar(s)
    ELSE LET h == Len(s) \div 2
         IN  Upper(SubSeq(s, 1, h)) \o Upper(SubSeq(s, h + 1, Len(s)))

\* the ASCII characters str.strip() and str.split() treat as blanks: space, \t, \n,
\* \r, \f, and the control characters 0x0B, 0x1C, 0x1D, 0x1E, 0x1F
IsSpace(c) ==
    c \in {" ", "\n", "\t", "\r", "\f", "", "", "", "", ""}

\* s.strip(): s from its first to its last character that is not a blank; lead
\* and trail are the numbers of blanks removed at the two ends
Strip(s) ==
    IF \A i \in 1..Len(s) : IsSpace(Char(s, i)) THEN ""
    ELSE LET lead == CHOOSE k \in 0..(Len(s) - 1) :
                         /\ ~IsSpace(Char(s, k + 1))
                         /\ \A j \in 1..k : IsSpace(Char(s, j))
             trail == CHOOSE k \in 0..(Len(s) - 1) :
                          /\ ~IsSpace(Char(s, Len(s) - k))
                          /\ \A j \in 0..(k - 1) : IsSpace(Char(s, Len(s) - j))
         IN  SubSeq(s, lead + 1, Len(s) - trail)

\* re: \d, for an ASCII character
IsDigit(c) == LetterIndex("0123456789", c) # {}

\* int(c), for a digit c
DigitValue(c) == SetMin(LetterIndex("0123456789", c)) - 1

(***************************************************************************)
(* Python None in a place that otherwise holds a str: a cell of a table,   *)
(* the name of a form field, the text given to parse_currency. Such a      *)
(* value is a record [none, text]: None is NoneCell, the str s is Cell(s), *)
(* so that no text is taken for None.                                      *)
(***************************************************************************)
NoneCell == [none |-> TRUE, text |-> ""]

Cell(s) == [none |-> FALSE, text |-> s]

\* a row and a table of str cells
Row(texts) == [i \in 1..Len(texts) |-> Cell(texts[i])]

Table(rows) == [r \in 1..Len(rows) |-> Row(rows[r])]

\* str(x)
Str(x) == IF x.none THEN "None" ELSE x.text

(***************************************************************************)
(* Natural numbers of any size, as sequences of limbs: a[1] is the least   *)
(* significant limb, each limb is in 0..LimbBase-1, the last limb is not   *)
(* 0, and <<>> is the number 0. The integers of the checker have 32 bits,  *)
(* the mantissa of a float has 53.                                         *)
(***************************************************************************)
LimbBits == 10

LimbBase == 1024

\* 2^n, for n in 0..LimbBits
Pow2(n) == <<1, 2, 4, 8, 16, 32, 64, 128, 256, 512, 1024>>[n + 1]

\* the limb i of a, 0 beyond its length
Limb(a, i) == IF i >= 1 /\ i <= Len(a) THEN a[i] ELSE 0

\* a without its leading 0 limbs
BTrim(a) == SubSeq(a, 1, SetMax({0} \cup {i \in 1..Len(a) : a[i] # 0}))

\* the number n, for an integer 0 <= n < 2^30
BFromInt(n) ==
    BTrim(<<n % LimbBase, (n \div LimbBase) % LimbBase, n \div (LimbBase * LimbBase)>>)

\* a + b: the limb i receives a carry when the nearest limb below whose sum S[j]
\* is not LimbBase - 1, which would pass a carry on, overflows
BAdd(a, b) ==
    LET Carried(S) ==
            BTrim([i \in DOMAIN S |->
                      LET below == {j \in 1..(i - 1) : S[j] # LimbBase - 1}
                      IN  IF below # {} /\ S[SetMax(below)] >= LimbBase
                          THEN (S[i] + 1) % LimbBase
                          ELSE S[i] % LimbBase])
    IN  Carried([i \in 1..(Max2(Len(a), Len(b)) + 1) |-> Limb(a, i) + Limb(b, i)])

\* a - b, for a >= b: the limb i lends when the nearest limb below in which a
\* and b differ, equal limbs pass a borrow on, is smaller in a
BSub(a, b) ==
    LET differ == {j \in 1..Len(a) : a[j] # Limb(b, j)}
        Lent(i, below) == IF below # {} /\ a[SetMax(below)] < Limb(b, SetMax(below))
                          THEN 1 ELSE 0
    IN  BTrim([i \in 1..Len(a) |->
                  (LimbBase + a[i] - Limb(b, i) - Lent(i, {j \in differ : j < i}))
                      % LimbBase])

\* -1, 0 or 1 as a < b, a = b or a > b: decided by the highest limb that differs
BCmp(a, b) ==
    LET Sign(i) == IF i = 0 THEN 0 ELSE IF Limb(a, i) < Limb(b, i) THEN -1 ELSE 1
    IN  Sign(SetMax({0} \cup {i \in 1..Max2(Len(a), Len(b)) : Limb(a, i) # Limb(b, i)}))

\* a * k, for 0 <= k <= LimbBase: the low parts of the products of the limbs
\* plus their high parts one limb up
BMulSmall(a, k) ==
    BAdd([i \in 1..Len(a) |-> (a[i] * k) % LimbBase],
         <<0>> \o [i \in 1..Len(a) |-> (a[i] * k) \div LimbBase])

\* a * 2^n
BShl(a, n) ==
    IF Len(a) = 0 THEN a
    ELSE [i \in 1..(n \div LimbBits) |-> 0] \o BMulSmall(a, Pow2(n % LimbBits))

\* a \div 2^n: the limbs from n \div LimbBits on, moved down by s = n % LimbBits bits
BShr(a, n) ==
    LET Moved(rest, s) ==
            BTrim([i \in 1..Len(rest) |->
                      rest[i] \div Pow2(s) + (Limb(rest, i + 1) % Pow2(s)) * Pow2(LimbBits - s)])
    IN  IF n \div LimbBits >= Len(a) THEN <<>>
        ELSE Moved(SubSeq(a, n \div LimbBits + 1, Len(a)), n % LimbBits)

\* the number of bits of a
BitLen(a) ==
    IF Len(a) = 0 THEN 0
    ELSE LimbBits * (Len(a) - 1) + SetMin({n \in 1..LimbBits : a[Len(a)] < Pow2(n)})

\* a * 10^k
RECURSIVE BMulPow10(_, _)
BMulPow10(a, k) ==
    IF k <= 0 THEN a
    ELSE BMulPow10(BMulSmall(a, IF k >= 3 THEN 1000 ELSE 10), IF k >= 3 THEN k - 3 ELSE k - 1)

\* the digit q of a long division: q * d <= r < (q + 1) * d, for r < d * LimbBase.
\* The leading limbs of r and d give an estimate est that is never too small and
\* at most 2 too large, p is est * d; a divisor of one limb gives the digit itself.
QuotientDigit(r, d) ==
    LET Fit(est, p) == IF BCmp(p, r) <= 0 THEN est
                       ELSE IF BCmp(BSub(p, d), r) <= 0 THEN est - 1
                       ELSE est - 2
        Try(est) == Fit(est, BMulSmall(d, est))
        Lead(n) == Try(Min2(((Limb(r, n + 1) * LimbBase + Limb(r, n)) * LimbBase
                                 + Limb(r, n - 1))
                                \div (d[n] * LimbBase + d[n - 1]),
                            LimbBase - 1))
    IN  IF BCmp(r, d) < 0 THEN 0
        ELSE IF Len(d) = 1 THEN (Limb(r, 2) * LimbBase + Limb(r, 1)) \div d[1]
        ELSE Lead(Len(d))

\* the long division of the limbs j, j-1, .., 1 of a by d > 0; r is the
\* remainder of the limbs above and q their quotient, r1 the remainder with the
\* limb j brought down and qd the digit it gives
RECURSIVE BDivFrom(_, _, _, _, _)
BDivFrom(a, d, j, r, q) ==
    LET Step(r1, qd) ==
            IF qd = 0 THEN BDivFrom(a, d, j - 1, r1, <<0>> \o q)
            ELSE BDivFrom(a, d, j - 1, BSub(r1, BMulSmall(d, qd)), <<qd>> \o q)
        Down(r1) == Step(r1, QuotientDigit(r1, d))
    IN  IF j = 0 THEN [q |-> BTrim(q), r |-> r]
        ELSE Down(BTrim(<<a[j]>> \o r))

\* quotient and remainder of a by d > 0: the leading Len(d) - 1 limbs of a are
\* less than d, the division starts below them
BDivMod(a, d) ==
    IF Len(a) < Len(d) THEN [q |-> <<>>, r |-> a]
    ELSE BDivFrom(a, d, Len(a) - Len(d) + 1, SubSeq(a, Len(a) - Len(d) + 2, Len(a)), <<>>)

(***************************************************************************)
(* Python float: the IEEE-754 binary64 numbers. A finite float is the      *)
(* record [none |-> FALSE, neg, m, e] of value (-1)^neg * m * 2^e, with m  *)
(* an odd number of at most 53 bits, or m = <<>> and e = 0 for the zeros   *)
(* 0.0 (neg = FALSE) and -0.0 (neg = TRUE). Every operation computes the   *)
(* exact result and rounds it to 53 bits, ties to even. The exponents of   *)
(* the values of the program stay far from the overflow and the subnormal  *)
(* ranges, which are not modelled; nor are inf and nan, which no operation *)
(* on the texts of a document produces.                                    *)
(***************************************************************************)
MantissaBits == 53

\* the result None of a function that otherwise returns a float
None == [none |-> TRUE, neg |-> FALSE, m |-> <<>>, e |-> 0]

Double(neg, m, e) == [none |-> FALSE, neg |-> neg, m |-> m, e |-> e]

Zero == Double(FALSE, <<>>, 0)

IsZero(x) == Len(x.m) = 0

\* the float of value (-1)^neg * mag * 2^e, for mag of at most 53 bits: t is the
\* number of 0 bits below the lowest 1 bit of mag, which is in the limb i
Canonical(neg, mag, e) ==
    LET Odd(t) == Double(neg, BShr(mag, t), e + t)
        Low(i) == Odd(LimbBits * (i - 1)
                          + SetMax({n \in 0..(LimbBits - 1) : mag[i] % Pow2(n) = 0}))
    IN  IF Len(mag) = 0 THEN Double(neg, <<>>, 0)
        ELSE Low(SetMin({j \in 1..Len(mag) : mag[j] # 0}))

\* mag rounded to its leading 53 bits, ties to even, for mag of more than 53 bits:
\* the bits kept and the number k of bits dropped; q is mag without these k bits
\* and c compares the bits dropped with a half
RoundBits(mag) ==
    LET Up(q, k, c) == IF c > 0 \/ (c = 0 /\ Limb(q, 1) % 2 = 1)
                       THEN [m |-> BAdd(q, <<1>>), k |-> k]
                       ELSE [m |-> q, k |-> k]
        Cut(q, k) == Up(q, k, BCmp(BSub(mag, BShl(q, k)), BShl(<<1>>, k - 1)))
        Drop(k) == Cut(BShr(mag, k), k)
    IN  Drop(BitLen(mag) - MantissaBits)

\* the float nearest to (-1)^neg * mag * 2^e, ties to even
Round53(neg, mag, e) ==
    LET Kept(r) == Canonical(neg, r.m, e + r.k)
    IN  Kept(IF BitLen(mag) <= MantissaBits THEN [m |-> mag, k |-> 0] ELSE RoundBits(mag))

\* q, made odd when the division that gave it left a remainder r: the bits
\* below the 53 kept are then not mistaken for an exact half
Sticky(q, r) == IF Len(r) > 0 /\ Limb(q, 1) % 2 = 0 THEN BAdd(q, <<1>>) ELSE q

\* the float nearest to (-1)^neg * n * 10^e10, as float() reads a decimal text:
\* for e10 < 0 the quotient of n * 2^s by 10^-e10, which has at least 55 bits
FromDecimal(neg, n, e10) ==
    LET Nearest(v) == Round53(neg, v.mag, v.e)
        Divided(s, d) == [mag |-> Sticky(d.q, d.r), e |-> -s]
        Shifted(s) == Divided(s, BDivMod(BShl(n, s), BMulPow10(<<1>>, -e10)))
    IN  IF Len(n) = 0 THEN Double(neg, <<>>, 0)
        ELSE Nearest(IF e10 >= 0 THEN [mag |-> BMulPow10(n, e10), e |-> 0]
                     ELSE Shifted(Max2(0, 55 + 4 * (-e10) - BitLen(n))))

\* the float nearest to m * 10^e, for an integer m: the literal "m e"
Float(m, e) == FromDecimal(m < 0, BFromInt(IF m < 0 THEN -m ELSE m), e)

\* -x
FNeg(x) == [x EXCEPT !.neg = ~x.neg]

\* abs(x)
FAbs(x) == [x EXCEPT !.neg = FALSE]

\* -1, 0 or 1 as x < y, x == y or x > y (the two zeros are equal): for two
\* numbers of the same sign, c compares their magnitudes at the exponent e
FCmp(x, y) ==
    LET Signed(c) == IF x.neg THEN -c ELSE c
        Aligned(e) == Signed(BCmp(BShl(x.m, x.e - e), BShl(y.m, y.e - e)))
    IN  IF IsZero(x) /\ IsZero(y) THEN 0
        ELSE IF IsZero(x) THEN (IF y.neg THEN 1 ELSE -1)
        ELSE IF IsZero(y) THEN (IF x.neg THEN -1 ELSE 1)
        ELSE IF x.neg # y.neg THEN (IF x.neg THEN -1 ELSE 1)
        ELSE Aligned(Min2(x.e, y.e))

\* x > y
FGt(x, y) == FCmp(x, y) = 1

\* x + y: ax and ay are the magnitudes at the exponent e, c compares them; the
\* exact sum of two numbers of opposite signs and equal magnitudes is 0.0
FAdd(x, y) ==
    LET Nearest(e, v) == IF Len(v.mag) = 0 THEN Zero ELSE Round53(v.neg, v.mag, e)
        Signed(ax, ay, c) ==
            IF x.neg = y.neg THEN [neg |-> x.neg, mag |-> BAdd(ax, ay)]
            ELSE IF c >= 0 THEN [neg |-> x.neg, mag |-> BSub(ax, ay)]
            ELSE [neg |-> y.neg, mag |-> BSub(ay, ax)]
        Compared(ax, ay) == Signed(ax, ay, BCmp(ax, ay))
        Aligned(e) == Nearest(e, Compared(BShl(x.m, x.e - e), BShl(y.m, y.e - e)))
    IN  IF IsZero(x) /\ IsZero(y) THEN Double(x.neg /\ y.neg, <<>>, 0)
        ELSE IF IsZero(x) THEN y
        ELSE IF IsZero(y) THEN x
        ELSE Aligned(Min2(x.e, y.e))

\* x - y
FSub(x, y) == FAdd(x, FNeg(y))

\* x * 10^k, for k >= 0: "value *= 1_000_000", "value *= 1_000", "* 100"
FScale(x, k) == IF k = 0 THEN x ELSE Round53(x.neg, BMulPow10(x.m, k), x.e)

\* x / y, for y # 0: the quotient of x.m * 2^s by y.m has at least 55 bits
FDiv(x, y) ==
    LET Nearest(s, d) == Round53(x.neg # y.neg, Sticky(d.q, d.r), x.e - y.e - s)
        Shifted(s) == Nearest(s, BDivMod(BShl(x.m, s), y.m))
    IN  IF IsZero(x) THEN Double(x.neg # y.neg, <<>>, 0)
        ELSE Shifted(Max2(0, 55 + BitLen(y.m) - BitLen(x.m)))

\* a * 2^e rounded to an integer, ties to even: q is the integer part and c
\* compares the fraction with a half
RoundInteger(a, e) ==
    LET Up(q, c) == IF c > 0 \/ (c = 0 /\ Limb(q, 1) % 2 = 1) THEN BAdd(q, <<1>>) ELSE q
        Cut(q) == Up(q, BCmp(BSub(a, BShl(q, -e)), BShl(<<1>>, -e - 1)))
    IN  IF e >= 0 THEN BShl(a, e) ELSE Cut(BShr(a, -e))

\* round(x, 2): x is rounded to 2 decimals on its exact value, ties to even, and
\* the float nearest to that decimal is returned
Round2(x) ==
    IF IsZero(x) THEN x
    ELSE FromDecimal(x.neg, RoundInteger(BMulSmall(x.m, 100), x.e), -2)

\* bool(x) of a float or None
Truthy(x) == x # None /\ ~IsZero(x)
(***************************************************************************)
(* parse_currency                                                          *)
(***************************************************************************)
\* stand-ins for U+2014 and U+2013, which a module's text cannot hold
EmDash == "~"

EnDash == "^"

ZeroTokens == {"", "-", EmDash, EnDash, "N/A", "n/a"}

\* re.sub(r"[^\d.]", "", text)
RECURSIVE Cleaned(_)
Cleaned(text) ==
    IF Len(text) = 0 THEN ""
    ELSE LET c == Char(text, 1)
         IN  (IF IsDigit(c) \/ c = "." THEN c ELSE "")
                 \o Cleaned(SubSeq(text, 2, Len(text)))

\* the digits of s from position i on, appended to the number acc, k <= 3
\* digits at a time: D(j) is the digit at i + j
RECURSIVE DigitsFrom(_, _, _)
DigitsFrom(s, i, acc) ==
    LET D(j) == DigitValue(Char(s, i + j))
        Chunk(k) == IF k = 1 THEN D(0)
                    ELSE IF k = 2 THEN 10 * D(0) + D(1)
                    ELSE 100 * D(0) + 10 * D(1) + D(2)
        Scale(k) == IF k = 1 THEN 10 ELSE IF k = 2 THEN 100 ELSE 1000
        Rest(k, next) == IF Len(next) = 0 THEN DigitsFrom(s, i + k, <<>>)
                         ELSE DigitsFrom(s, i + k, next)
        Take(k) == Rest(k, BAdd(BMulSmall(acc, Scale(k)), BFromInt(Chunk(k))))
    IN  IF i > Len(s) THEN acc
        ELSE Take(Min2(3, Len(s) - i + 1))

\* the digits of s as a natural number
DigitsValue(s) == DigitsFrom(s, 1, <<>>)

\* whether float(cleaned) raises ValueError, for cleaned made of digits and "."
FloatRaises(cleaned) ==
    \/ Cardinality(Occurrences(cleaned, ".")) > 1
    \/ \A i \in 1..Len(cleaned) : ~IsDigit(Char(cleaned, i))

\* float(cleaned), where it does not raise: the digits of cleaned, scaled by
\* the number of digits after the "." at position dot
FloatOf(cleaned) ==
    LET Read(digits, e10) == FromDecimal(FALSE, DigitsValue(digits), e10)
        Split(dot) ==
            Read(IF dot = -1 THEN cleaned
                 ELSE Slice(cleaned, 0, dot) \o Slice(cleaned, dot + 1, Len(cleaned)),
                 IF dot = -1 THEN 0 ELSE -(Len(cleaned) - dot - 1))
    IN  Split(Find(cleaned, "."))

\* the exponent of the factor applied for the millions/thousands abbreviations
AbbreviationExp(text) ==
    LET Exp(upper) == IF Contains(upper, "M") /\ ~Contains(upper, "MANAGEMENT") THEN 6
                      ELSE IF Contains(upper, "K") THEN 3
                      ELSE 0
    IN  Exp(Upper(text))

parse_currency(cell) ==
    LET Signed(is_negative, value) == IF is_negative THEN FNeg(value) ELSE value
        Number(text, cleaned) ==
            IF cleaned = "" THEN None
            ELSE IF FloatRaises(cleaned) THEN None
            ELSE Signed(Contains(text, "(") /\ Contains(text, ")"),
                        FScale(FloatOf(cleaned), AbbreviationExp(text)))
        Parse(text) == IF text \in ZeroTokens THEN Zero
                       ELSE Number(text, Cleaned(text))
    IN  IF cell.none \/ cell.text = "" THEN None
        ELSE Parse(Strip(cell.text))

(***************************************************************************)
(* SpecCurrency: parse_currency applied to every text of CurrencyTexts.    *)
(***************************************************************************)
CurrencyAlphabet == {"1", "5", "0", ".", "(", ")", "M", "k", "-", " ", "a"}

RECURSIVE TextsUpTo(_, _)
TextsUpTo(alphabet, n) ==
    IF n = 0 THEN {""}
    ELSE LET shorter == TextsUpTo(alphabet, n - 1)
         IN  shorter \cup {s \o c : s \in shorter, c \in alphabet}

CurrencyLiterals ==
    {"N/A", "n/a", "N/a", EmDash, EnDash, " - ", "$1,000.00", "(500)",
     "1M", "$2.5m", "10K", "Management fee 2M", "abc", "5 items", "1.2.3",
     "12.31.2023", "Mar 5", "5 km", "(1M)", "Market 5K", "\f", "\f5 ", "<None>",
     "None", "2.01M", "4.03M", "0.1", "(0)"}

CurrencyTexts == TextsUpTo(CurrencyAlphabet, MaxTextLen) \cup CurrencyLiterals

\* the arguments of parse_currency: None and every text of CurrencyTexts
CurrencyCells == {NoneCell} \cup {Cell(t) : t \in CurrencyTexts}

InitCurrency ==
    /\ pc = "call"
    /\ args \in {[text |-> t] : t \in CurrencyCells}
    /\ local = <<>>
    /\ ret = None

CallParseCurrency ==
    /\ pc = "call"
    /\ ret' = parse_currency(args.text)
    /\ pc' = "done"
    /\ UNCHANGED <<args, local>>

NextCurrency == CallParseCurrency

SpecCurrency == InitCurrency /\ [][NextCurrency]_vars

\* the null, empty and placeholder inputs
NullOrPlaceholder ==
    {NoneCell, Cell(""), Cell("-"), Cell(EmDash), Cell(EnDash), Cell("N/A")}

HasDigit(s) == \E i \in 1..Len(s) : IsDigit(Char(s, i))

\* C4: parse_currency maps every null, empty or placeholder input to 0.0, and
\* returns None only for a text that is not a placeholder and in which no digit
\* remains after stripping; normalize("") is 0.0, not None.
C4_PlaceholdersAreZero ==
    pc = "done" =>
        /\ args.text \in NullOrPlaceholder => ret = Zero
        /\ ret = None => (args.text \notin NullOrPlaceholder /\ ~HasDigit(args.text.text))

\* the positions of the numeric characters of text
NumericPositions(text) ==
    {i \in 1..Len(text) : IsDigit(Char(text, i)) \/ Char(text, i) = "."}

\* letter (upper case) is the suffix of the amount: it follows the last numeric
\* character, or ends the text (before a closing parenthesis, if any)
HasSuffix(text, letter) ==
    LET t == Strip(text)
        last == SetMax(NumericPositions(t))
        body == IF Len(t) > 0 /\ Char(t, Len(t)) = ")"
                THEN Strip(SubSeq(t, 1, Len(t) - 1)) ELSE t
    IN  \/ last < Len(t) /\ Upper(Char(t, last + 1)) = letter
        \/ Len(body) > 0 /\ Upper(Char(body, Len(body))) = letter

\* the exponent of the factor the suffix rule gives
SuffixExp(text) ==
    IF HasSuffix(text, "M") /\ ~Contains(Upper(text), "MANAGEMENT") THEN 6
    ELSE IF HasSuffix(text, "K") THEN 3
    ELSE 0

\* C5: parse_currency multiplies the parsed magnitude by 1,000,000 exactly when
\* the text has a case-insensitive "M" suffix and does not contain "MANAGEMENT",
\* by 1,000 exactly when it has a "K" suffix, and by 1 otherwise; an "M" or "K"
\* elsewhere in the text does not scale the value.
C5_OnlySuffixScales ==
    (pc = "done" /\ ret # None /\ Strip(args.text.text) \notin ZeroTokens) =>
        FAbs(ret) = FScale(FloatOf(Cleaned(args.text.text)), SuffixExp(args.text.text))

(***************************************************************************)
(* Documents.  A document is the sequence of its pages; a page is          *)
(* [text, tables, widgets]: what get_text(), find_tables() and widgets()   *)
(* give for it.                                                            *)
(***************************************************************************)
TextPage(text) == [text |-> text, tables |-> <<>>, widgets |-> <<>>]

get_text(page) == page.text

\* the sequences over S of length at most n
SeqsUpTo(S, n) == UNION {[1..k -> S] : k \in 0..n}

RECURSIVE Repeat(_, _)
Repeat(s, n) ==
    IF n <= 0 THEN ""
    ELSE LET half == Repeat(s, n \div 2)
         IN  IF n % 2 = 0 THEN half \o half ELSE half \o half \o s



(***************************************************************************)
(* search_text_in_pdf                                                      *)
(***************************************************************************)
ExcerptBefore == 100

ExcerptAfter == 200

NotFound == [found |-> FALSE, page |-> NoneCell, excerpt |-> NoneCell]

\* the hit of the inner loop for the term search_terms[i], on the page page_num
SearchHit(text, term, page_num) ==
    LET text_lower == Lower(text)
        pos == Find(text_lower, Lower(term))
        excerpt_start == Max2(0, pos - ExcerptBefore)
        excerpt_end == Min2(Len(text), pos + ExcerptAfter)
    IN  [found |-> TRUE,
         page |-> page_num + 1,
         excerpt |-> Cell(Strip(Slice(text, excerpt_start, excerpt_end)))]

\* the inner loop over search_terms, from the term i on; NotFound when it ends
RECURSIVE SearchTerms(_, _, _, _)
SearchTerms(text, search_terms, i, page_num) ==
    IF i > Len(search_terms) THEN NotFound
    ELSE IF Contains(Lower(text), Lower(search_terms[i]))
         THEN SearchHit(text, search_terms[i], page_num)
         ELSE SearchTerms(text, search_terms, i + 1, page_num)

\* the loops exchanged: the first term found on any page wins, on its first page
RECURSIVE SearchPagesTermsFirst(_, _, _)
SearchPagesTermsFirst(doc, search_terms, i) ==
    IF i > Len(search_terms) THEN NotFound
    ELSE LET pages == {p \in 1..Len(doc) :
                          Contains(Lower(get_text(doc[p])), Lower(search_terms[i]))}
         IN  IF pages # {}
             THEN SearchHit(get_text(doc[SetMin(pages)]), search_terms[i],
                            SetMin(pages) - 1)
             ELSE SearchPagesTermsFirst(doc, search_terms, i + 1)

\* the outer loop over the pages, from the page page_num (0-based) on
RECURSIVE SearchPages(_, _, _)
SearchPages(doc, search_terms, page_num) ==
    IF page_num >= Len(doc) THEN NotFound
    ELSE LET hit == SearchTerms(get_text(doc[page_num + 1]), search_terms, 1, page_num)
         IN  IF hit.found THEN hit
             ELSE SearchPages(doc, search_terms, page_num + 1)

search_text_in_pdf_TermsFirst(doc, search_terms) ==
    SearchPagesTermsFirst(doc, search_terms, 1)

search_text_in_pdf(doc, search_terms) == SearchPages(doc, search_terms, 0)

(***************************************************************************)
(* SpecSearch: search_text_in_pdf on the documents made of SearchPagePool  *)
(* and the term lists made of SearchTermPool.                              *)
(***************************************************************************)
Filler(n) == Repeat("x", n)

SearchPagePool ==
    {TextPage("Cover page\nAnnual report"),
     TextPage("\fRisk Factors\nsee ITEM 1A\f"),
     TextPage(Filler(150) \o " Risk Factors " \o Filler(350) \o " Item 1A " \o Filler(150)),
     TextPage(Filler(120) \o "\nITEM 7 md&a\n" \o Filler(250))}

SearchTermPool == {"item 1a", "risk factors", "Item 7"}

SearchDocs == SeqsUpTo(SearchPagePool, MaxPages)

SearchTermLists == SeqsUpTo(SearchTermPool, MaxTerms)

InitSearch ==
    /\ pc = "call"
    /\ args \in {[doc |-> d, search_terms |-> t] : d \in SearchDocs, t \in SearchTermLists}
    /\ local = <<>>
    /\ ret = NotFound

CallSearchTextInPdf ==
    /\ pc = "call"
    /\ ret' = search_text_in_pdf(args.doc, args.search_terms)
    /\ pc' = "done"
    /\ UNCHANGED <<args, local>>

NextSearch == CallSearchTextInPdf

SpecSearch == InitSearch /\ [][NextSearch]_vars

\* the terms of search_terms (by index) that occur in the text of the page p of doc
TermsOnPage(doc, search_terms, p) ==
    {i \in 1..Len(search_terms) :
        Contains(Lower(get_text(doc[p])), Lower(search_terms[i]))}

\* the pages of doc (1-based) on which some term occurs
PagesWithTerm(doc, search_terms) ==
    {p \in 1..Len(doc) : TermsOnPage(doc, search_terms, p) # {}}

\* the excerpt around the first occurrence of term in text
ExcerptAt(text, term) ==
    LET pos == SetMin(Occurrences(Lower(text), Lower(term)))
    IN  Strip(SubSeq(text, Max2(0, pos - ExcerptBefore) + 1,
                     Min2(Len(text), pos + ExcerptAfter)))

\* C6: search_text_in_pdf returns found = true with the 1-based index of the
\* lowest-numbered page that contains any of the terms (case-insensitively),
\* whatever the order of the terms; the hit is anchored at the first-listed of
\* the terms present on that page; and it returns found = false with page and
\* excerpt absent exactly when no term occurs on any page.
C6_LowestPageFirstListedTerm ==
    pc = "done" =>
        LET hits == PagesWithTerm(args.doc, args.search_terms)
        IN  IF hits = {} THEN ret = NotFound
            ELSE LET p == SetMin(hits)
                     first == SetMin(TermsOnPage(args.doc, args.search_terms, p))
                 IN  /\ ret.found
                     /\ ret.page = p
                     /\ ret.excerpt = Cell(ExcerptAt(get_text(args.doc[p]),
                                                     args.search_terms[first]))

\* a hit on page 2 (page 1 holds no term), anchored at the first-listed term
\* although the other term occurs earlier in the page text, the two anchors
\* giving different excerpts
C6_Witness ==
    /\ pc = "done"
    /\ ret.found
    /\ ret.page = 2
    /\ Len(args.search_terms) = 2
    /\ LET text == get_text(args.doc[2])
           t1 == args.search_terms[1]
           t2 == args.search_terms[2]
       IN  /\ Contains(Lower(text), Lower(t1))
           /\ Contains(Lower(text), Lower(t2))
           /\ Find(Lower(text), Lower(t2)) < Find(Lower(text), Lower(t1))
           /\ ExcerptAt(text, t1) # ExcerptAt(text, t2)
           /\ ret.excerpt = Cell(ExcerptAt(text, t1))

(***************************************************************************)
(* Spec: the life of the document in one call of a tool.  The six tools    *)
(* share one shape: open the document (a failure raises ToolError before   *)
(* the try block), scan inside the try block, close and return the         *)
(* payload; any exception of the scan reaches the handler, which closes    *)
(* the document and raises ToolError.  No statement of a try block raises  *)
(* ToolError itself, so the handler that re-raises it is never entered.    *)
(* args.readable says whether pymupdf.open succeeds; args.doc names, page  *)
(* by page, whether processing the page raises.                            *)
(***************************************************************************)
ToolNames ==
    {"find_regulatory_sections", "extract_financial_statements",
     "validate_financial_math", "check_required_signatures",
     "detect_compliance_red_flags", "extract_comparative_periods"}

PageBehaviours == {"ok", "raises"}

NoResult == [success |-> FALSE, payload |-> NoneCell, error |-> NoneCell]

\* raise ToolError(message)
ToolError(message) == [success |-> FALSE, payload |-> NoneCell, error |-> Cell(message)]

\* return json.dumps({"success": True, ...})
Success(tool) == [success |-> TRUE, payload |-> Cell(tool), error |-> NoneCell]

\* doc.close()
Close(l) == [l EXCEPT !.doc_state = "closed", !.close_calls = l.close_calls + 1]

Init ==
    /\ pc = "open"
    /\ args \in {[tool |-> t, readable |-> r, doc |-> d] :
                    t \in ToolNames, r \in BOOLEAN,
                    d \in SeqsUpTo(PageBehaviours, MaxPages)}
    /\ local = [doc_state |-> "none", close_calls |-> 0, page_num |-> 0]
    /\ ret = NoResult

OpenDocument ==
    /\ pc = "open"
    /\ args.readable
    /\ local' = [local EXCEPT !.doc_state = "open"]
    /\ pc' = "scan"
    /\ UNCHANGED <<args, ret>>

OpenFails ==
    /\ pc = "open"
    /\ ~args.readable
    /\ ret' = ToolError("Failed to open PDF")
    /\ pc' = "raised"
    /\ UNCHANGED <<args, local>>

ScanPage ==
    /\ pc = "scan"
    /\ local.page_num < Len(args.doc)
    /\ args.doc[local.page_num + 1] = "ok"
    /\ local' = [local EXCEPT !.page_num = local.page_num + 1]
    /\ UNCHANGED <<pc, args, ret>>

ScanRaises ==
    /\ pc = "scan"
    /\ local.page_num < Len(args.doc)
    /\ args.doc[local.page_num + 1] = "raises"
    /\ pc' = "except"
    /\ UNCHANGED <<args, local, ret>>

CloseAndReturn ==
    /\ pc = "scan"
    /\ local.page_num = Len(args.doc)
    /\ local' = Close(local)
    /\ ret' = Success(args.tool)
    /\ pc' = "returned"
    /\ UNCHANGED args

ExceptRaiseOnly ==
    /\ pc = "except"
    /\ ret' = ToolError("Failed: " \o args.tool)
    /\ pc' = "raised"
    /\ UNCHANGED <<args, local>>

ExceptCloseAndRaise ==
    /\ pc = "except"
    /\ local' = Close(local)
    /\ ret' = ToolError("Failed: " \o args.tool)
    /\ pc' = "raised"
    /\ UNCHANGED args

Next ==
    \/ OpenDocument
    \/ OpenFails
    \/ ScanPage
    \/ ScanRaises
    \/ CloseAndReturn
    \/ ExceptCloseAndRaise

Spec == Init /\ [][Next]_vars

\* C3: for each of the six operations, once the document has been opened it is
\* closed (exactly once) before the operation returns, on every exit path: a
\* successful run closes it before producing the success payload, a failure
\* during processing closes it and then surfaces a single error with no
\* payload; a failure to open surfaces an error and no close is attempted.
C3_ClosedOnEveryExit ==
    /\ pc = "returned" =>
           /\ local.doc_state = "closed" /\ local.close_calls = 1
           /\ ret.success /\ ret.error = NoneCell
    /\ (pc = "raised" /\ args.readable) =>
           /\ local.doc_state = "closed" /\ local.close_calls = 1
           /\ ~ret.success /\ ret.payload = NoneCell /\ ret.error # NoneCell
    /\ (pc = "raised" /\ ~args.readable) =>
           /\ local.doc_state = "none" /\ local.close_calls = 0
           /\ ~ret.success /\ ret.payload = NoneCell /\ ret.error # NoneCell
    /\ pc \in {"returned", "raised"} <=> ret # NoResult

\* a failure while processing the second page of an opened document, surfaced
\* after the document was closed
C3_Witness ==
    /\ pc = "raised"
    /\ args.readable
    /\ local.page_num = 1
    /\ args.doc[2] = "raises"
    /\ local.doc_state = "closed"
    /\ args.tool = "validate_financial_math"

(***************************************************************************)
(* validate_financial_math                                                 *)
(*                                                                         *)
(* A table (table.extract()) is a sequence of rows, a row a sequence of    *)
(* cells, a cell a str or NoneCell.  An error entry is a record with the   *)
(* keys of the dict the code appends, but for "description", a text        *)
(* formatted from the other fields.                                        *)
(***************************************************************************)
Tolerance == Float(1, -2)

\* "row and len(row) >= 2"
HasValueCell(row) == Len(row) >= 2

\* the rows loop of the balance sheet check: the last row of each label wins.
\* Field is the variable the row's label names ("" for none of the three).
RECURSIVE BalanceRows(_, _, _)
BalanceRows(table_data, i, acc) ==
    LET Field(label) ==
            IF Contains(label, "total assets") THEN "assets"
            ELSE IF Contains(label, "total liabilities") THEN "liabilities"
            ELSE IF Contains(label, "total equity") \/ Contains(label, "total stockholders")
                 THEN "equity"
            ELSE ""
        Assigned(row, field) ==
            IF field = "" THEN acc ELSE [acc EXCEPT ![field] = parse_currency(row[2])]
        Updated(row) == IF ~HasValueCell(row) THEN acc
                        ELSE Assigned(row, Field(Lower(Str(row[1]))))
    IN  IF i > Len(table_data) THEN acc
        ELSE BalanceRows(table_data, i + 1, Updated(table_data[i]))

BalanceValues(table_data) ==
    BalanceRows(table_data, 1, [assets |-> None, liabilities |-> None, equity |-> None])

IsBalancePage(page_text) ==
    \/ Contains(page_text, "balance sheet")
    \/ Contains(page_text, "statement of financial position")

\* "if assets and liabilities and equity"
BalanceApplicable(v) == Truthy(v.assets) /\ Truthy(v.liabilities) /\ Truthy(v.equity)

BalanceErrors(page_text, table_data, page_num) ==
    LET Entry(v, liabilities_equity, diff) ==
            IF FGt(diff, Tolerance)
            THEN << [type |-> "Balance Sheet Imbalance",
                     page |-> page_num + 1,
                     severity |-> "critical",
                     assets |-> v.assets,
                     liabilities_equity |-> liabilities_equity,
                     difference |-> Round2(diff)] >>
            ELSE <<>>
        Sides(v, liabilities_equity) ==
            Entry(v, liabilities_equity, FAbs(FSub(v.assets, liabilities_equity)))
        Check(v) == IF ~BalanceApplicable(v) THEN <<>>
                    ELSE Sides(v, FAdd(v.liabilities, v.equity))
    IN  IF ~IsBalancePage(page_text) THEN <<>>
        ELSE Check(BalanceValues(table_data))

\* the rows loop of the income statement check
RECURSIVE IncomeRows(_, _, _)
IncomeRows(table_data, i, acc) ==
    LET Field(label) ==
            IF Contains(label, "total revenue") \/ Contains(label, "net revenue")
            THEN "revenue"
            ELSE IF Contains(label, "total expenses")
                    \/ Contains(label, "total operating expenses")
                 THEN "expenses"
            ELSE IF Contains(label, "net income") \/ Contains(label, "net loss")
                 THEN "net_income"
            ELSE ""
        Assigned(row, field) ==
            IF field = "" THEN acc ELSE [acc EXCEPT ![field] = parse_currency(row[2])]
        Updated(row) == IF ~HasValueCell(row) THEN acc
                        ELSE Assigned(row, Field(Lower(Str(row[1]))))
    IN  IF i > Len(table_data) THEN acc
        ELSE IncomeRows(table_data, i + 1, Updated(table_data[i]))

IncomeValues(table_data) ==
    IncomeRows(table_data, 1, [revenue |-> None, expenses |-> None, net_income |-> None])

IsIncomePage(page_text) ==
    \/ Contains(page_text, "income statement")
    \/ Contains(page_text, "statement of operations")

IncomeErrors(page_text, table_data, page_num) ==
    LET Entry(v, expected, diff) ==
            IF FGt(diff, Tolerance)
            THEN << [type |-> "Income Statement Mismatch",
                     page |-> page_num + 1,
                     severity |-> "critical",
                     revenue |-> v.revenue,
                     expenses |-> v.expenses,
                     expected_net |-> Round2(expected),
                     reported_net |-> v.net_income,
                     difference |-> Round2(diff)] >>
            ELSE <<>>
        Net(v, expected) == Entry(v, expected, FAbs(FSub(expected, v.net_income)))
        Check(v) == IF v.revenue = None \/ v.expenses = None \/ v.net_income = None
                    THEN <<>>
                    ELSE Net(v, FSub(v.revenue, v.expenses))
    IN  IF ~IsIncomePage(page_text) THEN <<>>
        ELSE Check(IncomeValues(table_data))

\* sum(numbers) for the parseable cells of column col_idx (0-based) in the rows
\* first..last (1-based) of table_data, and how many there are: sum() starts from
\* 0 and adds the numbers one by one in the order of the rows
RECURSIVE ColumnNumbers(_, _, _, _)
ColumnNumbers(table_data, col_idx, first, last) ==
    LET Appended(rest, value) ==
            IF value = None THEN rest
            ELSE [count |-> rest.count + 1, sum |-> FAdd(rest.sum, value)]
        Value(row) == IF col_idx < Len(row) THEN parse_currency(row[col_idx + 1]) ELSE None
    IN  IF first > last THEN [count |-> 0, sum |-> Zero]
        ELSE Appended(ColumnNumbers(table_data, col_idx, first, last - 1),
                      Value(table_data[last]))

\* the first of the rows summed (1-based): "for row_idx in range(len(table_data) - 1)"
FirstSummedRow == 1

\* the column loop of the column sum check, from the column col_idx (0-based) on
RECURSIVE ColumnErrors(_, _, _, _)
ColumnErrors(table_data, col_idx, page_num, table_num) ==
    LET Entry(calculated_sum, reported_sum, difference) ==
            IF FGt(FAbs(difference), Tolerance)
            THEN << [type |-> "Column Sum Mismatch",
                     page |-> page_num + 1,
                     table_number |-> table_num + 1,
                     column |-> col_idx + 1,
                     calculated_sum |-> Round2(calculated_sum),
                     reported_sum |-> Round2(reported_sum),
                     difference |-> Round2(difference)] >>
            ELSE <<>>
        Here(numbers, reported_sum) ==
            IF numbers.count > 0 /\ reported_sum # None
            THEN Entry(numbers.sum, reported_sum, FSub(numbers.sum, reported_sum))
            ELSE <<>>
        Reported(last_row) ==
            IF col_idx < Len(last_row) THEN parse_currency(last_row[col_idx + 1]) ELSE None
    IN  IF col_idx >= Len(table_data[1]) THEN <<>>
        ELSE Here(ColumnNumbers(table_data, col_idx, FirstSummedRow, Len(table_data) - 1),
                  Reported(table_data[Len(table_data)]))
                 \o ColumnErrors(table_data, col_idx + 1, page_num, table_num)

\* the errors one table adds
TableErrors(page_text, table_data, page_num, table_num) ==
    IF Len(table_data) < 2 THEN <<>>
    ELSE BalanceErrors(page_text, table_data, page_num)
             \o IncomeErrors(page_text, table_data, page_num)
             \o (IF Len(table_data) >= 3
                 THEN ColumnErrors(table_data, 1, page_num, table_num)
                 ELSE <<>>)

\* the tables loop of one page, from the table table_num (0-based) on
RECURSIVE PageErrors(_, _, _)
PageErrors(page, page_num, table_num) ==
    IF table_num >= Len(page.tables) THEN <<>>
    ELSE TableErrors(Lower(get_text(page)), page.tables[table_num + 1], page_num, table_num)
             \o PageErrors(page, page_num, table_num + 1)

(***************************************************************************)
(* SpecMath: validate_financial_math on the documents made of MathPages,   *)
(* one page scanned per step.                                              *)
(***************************************************************************)
TablePage(text, tables) == [text |-> text, tables |-> tables, widgets |-> <<>>]

BalanceTables ==
    {Table(<< <<"Item", "Amount">>, <<"Total assets", "100">>,
              <<"Total liabilities", l>>, <<"Total equity", q>> >>) :
        l \in {"60", "-", "abc"}, q \in {"40", "30", "0"}}
    \cup {Table(<< <<"", "2023">>, <<"Total Assets", "$1,000.00">>,
                   <<"Total Liabilities", "600">>,
                   <<"Total Stockholders' Equity", "(400)">> >>),
          Table(<< <<"Item", "Amount">>, <<"Total assets", "1.02">>,
                   <<"Total liabilities", "1">>, <<"Total equity", "0.01">> >>),
          Table(<< <<"Item", "Amount">>, <<"Total assets", "2.675\f">>,
                   <<"Total liabilities", "1">>, <<"Total equity", "1">> >>)}

ColumnTables ==
    {Table(<< <<"Item", h>>, <<"A", a>>, <<"B", "20">>, <<"Total", t>> >>) :
        h \in {"2023", "Amount"}, a \in {"10", "abc", "10.004", "10.014"},
        t \in {"25", "30"}}
    \cup {Table(<< <<"Item", "2023">>, <<"A", "10">>, <<"B", "20">>,
                   <<"Total", "2053">> >>),
          Table(<< <<"Item", "Amount">>, <<"A", "0.1">>, <<"B", "0.2">>,
                   <<"Total", "0.3">> >>),
          Table(<< <<"Item", "Amount">>, <<"A", "60">>, <<"B", "39.99">>,
                   <<"Total", "100">> >>)}

IncomeTables ==
    {Table(<< <<"Item", "Amount">>, <<"Total revenue", r>>,
              <<"Total expenses", "60">>, <<"Net income", n>> >>) :
        r \in {"100", "0"}, n \in {"40", "30", "abc"}}
    \cup {Table(<< <<"Item", "Amount">>, <<"Net revenue", "1.015">>,
                   <<"Total expenses", "0">>, <<"Net income", "5">> >>)}

OtherTables ==
    {<<>>,
     Table(<< <<"Item", "2023">> >>),
     Table(<< <<"Item", "2023">>, <<"Total", "5">> >>),
     Table(<< <<"Item", "2023", "2022">>, <<"A">>, <<"B", "1", "2">>, <<"Total", "1">> >>),
     << Row(<<"Item", "Amount">>), <<Cell("A"), NoneCell>>, <<NoneCell, Cell("7")>>,
        Row(<<"Total", "7">>) >>,
     Table(<< <<"Item", "Amount">>, <<"A", "<None>">>, <<"<None>", "7">>,
              <<"Total", "7">> >>)}

MathTables == BalanceTables \cup ColumnTables \cup IncomeTables \cup OtherTables

MathTexts == {"Consolidated Balance Sheet", "INCOME STATEMENT", "Notes"}

\* each table under the page text of its check, the column and other tables under
\* a text that names no statement, and some tables under every text
MathPages ==
    {TablePage("Consolidated Balance Sheet", <<t>>) : t \in BalanceTables}
    \cup {TablePage("INCOME STATEMENT", <<t>>) : t \in IncomeTables}
    \cup {TablePage("Notes", <<t>>) : t \in ColumnTables \cup OtherTables}
    \cup {TablePage(x, <<t>>) :
              x \in MathTexts,
              t \in {Table(<< <<"Item", "Amount">>, <<"Total assets", "100">>,
                              <<"Total liabilities", "60">>, <<"Total equity", "30">> >>),
                     Table(<< <<"Item", "Amount">>, <<"Total revenue", "100">>,
                              <<"Total expenses", "60">>, <<"Net income", "30">> >>),
                     Table(<< <<"Item", "2023">>, <<"A", "10">>, <<"B", "20">>,
                              <<"Total", "25">> >>)}}
    \cup {TablePage("Statement of Financial Position", <<>>),
          TablePage("Balance Sheet and Statement of Operations",
                    << Table(<< <<"Item", "2023">>, <<"A", "10">>, <<"B", "20">>,
                                <<"Total", "25">> >>),
                       Table(<< <<"Item", "Amount">>, <<"Total assets", "100">>,
                                <<"Total liabilities", "60">>, <<"Total equity", "30">>,
                                <<"Net revenue", "9">>,
                                <<"Total operating expenses", "4">>,
                                <<"Net loss", "(5)">> >>) >>)}

MathDocs == SeqsUpTo(MathPages, MaxMathPages)

InitMath ==
    /\ pc = "scan"
    /\ args \in {[doc |-> d] : d \in MathDocs}
    /\ local = [page_num |-> 0, errors |-> <<>>, warnings |-> <<>>, tables_checked |-> 0]
    /\ ret = NoResult

\* one iteration of "for page_num, page in enumerate(doc)"
MathScanPage ==
    /\ pc = "scan"
    /\ local.page_num < Len(args.doc)
    /\ LET page == args.doc[local.page_num + 1]
       IN  local' = [local EXCEPT
                        !.page_num = local.page_num + 1,
                        !.errors = local.errors \o PageErrors(page, local.page_num, 0),
                        !.tables_checked = local.tables_checked + Len(page.tables)]
    /\ UNCHANGED <<pc, args, ret>>

\* doc.close() and the return of the validation report
MathReturn ==
    /\ pc = "scan"
    /\ local.page_num = Len(args.doc)
    /\ ret' = [success |-> TRUE,
               payload |-> [tables_checked |-> local.tables_checked,
                            errors |-> local.errors,
                            warnings |-> local.warnings],
               error |-> NoneCell]
    /\ pc' = "done"
    /\ UNCHANGED <<args, local>>

NextMath == MathScanPage \/ MathReturn

SpecMath == InitMath /\ [][NextMath]_vars

\* the entries of errors (by index) of the given type for the page page_no (1-based)
ErrorsOf(errors, type, page_no) ==
    {i \in 1..Len(errors) : errors[i].type = type /\ errors[i].page = page_no}

\* the Column Sum Mismatch entry the data rows of table_data (the rows after the
\* header row and before the final row) give for the column col_idx (0-based);
\* the empty set when that sum agrees with the final row or nothing can be compared
DataRowsMismatch(table_data, col_idx, page_no, table_no) ==
    LET data == ColumnNumbers(table_data, col_idx, 2, Len(table_data) - 1)
        last_row == table_data[Len(table_data)]
        reported == IF col_idx < Len(last_row)
                    THEN parse_currency(last_row[col_idx + 1]) ELSE None
    IN  IF /\ data.count > 0
           /\ reported # None
           /\ FGt(FAbs(FSub(data.sum, reported)), Tolerance)
        THEN {[type |-> "Column Sum Mismatch",
               page |-> page_no,
               table_number |-> table_no,
               column |-> col_idx + 1,
               calculated_sum |-> Round2(data.sum),
               reported_sum |-> Round2(reported),
               difference |-> Round2(FSub(data.sum, reported))]}
        ELSE {}

\* C1: for every table with at least 3 rows and every column after the label
\* column, the column sum check compares the sum of the parseable values of the
\* data rows only (after the header row, before the final row) with the final
\* row's value: the Column Sum Mismatch entries reported for a table are exactly
\* those the data rows give, so [[hdr,"2023"],["A","10"],["B","20"],["Total","25"]]
\* yields one entry with calculated_sum = 30, reported_sum = 25, difference = 5.
C1_ColumnSumOverDataRows ==
    pc = "done" =>
        \A p \in 1..Len(args.doc) :
            \A t \in 1..Len(args.doc[p].tables) :
                LET table_data == args.doc[p].tables[t]
                    errors == ret.payload.errors
                IN  Len(table_data) >= 3 =>
                        {errors[i] : i \in {j \in ErrorsOf(errors, "Column Sum Mismatch", p) :
                                               errors[j].table_number = t}}
                        = UNION {DataRowsMismatch(table_data, c, p, t) :
                                    c \in 1..(Len(table_data[1]) - 1)}

\* the tables (by index) of the page whose three governing values all parse and
\* break the balance equation by more than the tolerance
ImbalancedTables(page) ==
    {t \in 1..Len(page.tables) :
        LET v == BalanceValues(page.tables[t])
        IN  /\ Len(page.tables[t]) >= 2
            /\ v.assets # None /\ v.liabilities # None /\ v.equity # None
            /\ FGt(FAbs(FSub(v.assets, FAdd(v.liabilities, v.equity))), Tolerance)}

\* C2: for every table on a page whose text contains a balance sheet phrase and
\* whose rows "total assets", "total liabilities" and "total equity"/"total
\* stockholders" all parse to a non-null number in column 1 (an explicit zero
\* such as "-" or "0" included), a Balance Sheet Imbalance is reported if and
\* only if |assets - (liabilities + equity)| > 0.01; only a null governing value
\* suppresses the check.
C2_BalanceCheckedUnlessNull ==
    pc = "done" =>
        \A p \in 1..Len(args.doc) :
            IsBalancePage(Lower(get_text(args.doc[p]))) =>
                Cardinality(ErrorsOf(ret.payload.errors, "Balance Sheet Imbalance", p))
                = Cardinality(ImbalancedTables(args.doc[p]))

\* C11: every error entry reported by validate_financial_math (Balance Sheet
\* Imbalance, Income Statement Mismatch, Column Sum Mismatch) carries a
\* difference field whose absolute value is strictly greater than 0.01.
C11_DifferenceExceedsTolerance ==
    pc = "done" =>
        \A i \in 1..Len(ret.payload.errors) :
            FGt(FAbs(ret.payload.errors[i].difference), Tolerance)

(***************************************************************************)
(* extract_financial_statements                                            *)
(*                                                                         *)
(* A dict is a function on the set of its keys.                            *)
(***************************************************************************)
\* the statement type with the phrase groups tried in the reverse order
StatementTypeInvoiceFirst(page_text) ==
    IF Contains(page_text, "invoice") \/ Contains(page_text, "bill to")
    THEN Cell("Invoice")
    ELSE IF Contains(page_text, "cash flow")
    THEN Cell("Cash Flow Statement")
    ELSE IF Contains(page_text, "income statement")
            \/ Contains(page_text, "statement of operations")
            \/ Contains(page_text, "p&l")
    THEN Cell("Income Statement")
    ELSE IF Contains(page_text, "balance sheet")
            \/ Contains(page_text, "statement of financial position")
    THEN Cell("Balance Sheet")
    ELSE NoneCell

\* statement_type after the phrase tests; page_text is the lowered text of the
\* page, NoneCell is given when no phrase matches
StatementType(page_text) ==
    IF Contains(page_text, "balance sheet")
       \/ Contains(page_text, "statement of financial position")
    THEN Cell("Balance Sheet")
    ELSE IF Contains(page_text, "income statement")
            \/ Contains(page_text, "statement of operations")
            \/ Contains(page_text, "p&l")
    THEN Cell("Income Statement")
    ELSE IF Contains(page_text, "cash flow")
    THEN Cell("Cash Flow Statement")
    ELSE IF Contains(page_text, "invoice") \/ Contains(page_text, "bill to")
    THEN Cell("Invoice")
    ELSE NoneCell

\* re.search(r"20\d{2}", s)
HasYear(s) ==
    \E i \in 1..(Len(s) - 3) :
        /\ SubSeq(s, i, i + 1) = "20"
        /\ IsDigit(Char(s, i + 2))
        /\ IsDigit(Char(s, i + 3))

\* the periods of the header row, in header order, from the cell i on
RECURSIVE HeaderPeriods(_, _)
HeaderPeriods(header_row, i) ==
    IF i > Len(header_row) THEN <<>>
    ELSE (IF HasYear(Str(header_row[i])) THEN <<Strip(Str(header_row[i]))>> ELSE <<>>)
             \o HeaderPeriods(header_row, i + 1)

Periods(table_data) ==
    IF Len(table_data) = 0 THEN <<>> ELSE HeaderPeriods(table_data[1], 1)

KeyItemKeywords ==
    {"total assets", "total liabilities", "total equity", "stockholders", "revenue",
     "net income", "net loss", "total", "subtotal", "operating", "investing",
     "financing"}

IsKeyItem(item_name) == \E keyword \in KeyItemKeywords : Contains(Lower(item_name), keyword)

\* the cell of a row (1-based) read for periods[i] (1-based): "row[i + 1]" of the
\* code, whose i and cells are 0-based
PeriodCell(i) == i + 1

\* the dict values of one key item row: a later period of the same label
\* overwrites an earlier one
RowValues(periods, row) ==
    LET used == {i \in 1..Len(periods) : PeriodCell(i) <= Len(row)}
        keys == {periods[i] : i \in used}
    IN  [k \in keys |->
            LET i == SetMax({j \in used : periods[j] = k})
            IN  parse_currency(row[PeriodCell(i)])]

\* the dict key_items of one table: a later row of the same name overwrites an
\* earlier one
KeyItems(table_data) ==
    LET periods == Periods(table_data)
        rows == {r \in 2..Len(table_data) :
                    /\ Len(table_data[r]) > 0
                    /\ IsKeyItem(Strip(Str(table_data[r][1])))}
        names == {Strip(Str(table_data[r][1])) : r \in rows}
    IN  [name \in names |->
            LET r == SetMax({q \in rows : Strip(Str(table_data[q][1])) = name})
            IN  RowValues(periods, table_data[r])]

AuditRows == 10

\* the statement one table of a classified page adds
Statement(statement_type, page_num, table_data) ==
    [type |-> statement_type,
     page |-> page_num + 1,
     periods |-> Periods(table_data),
     key_items |-> KeyItems(table_data),
     table_data |-> SubSeq(table_data, 1, Min2(AuditRows, Len(table_data)))]

\* the statements one page adds
PageStatements(page, page_num) ==
    LET statement_type == StatementType(Lower(get_text(page)))
    IN  IF statement_type.none THEN <<>>
        ELSE [t \in 1..Len(page.tables) |->
                 Statement(statement_type.text, page_num, page.tables[t])]

(***************************************************************************)
(* SpecStatements: extract_financial_statements on the documents made of   *)
(* StatementPages, one page scanned per step.                              *)
(***************************************************************************)
StatementHeaders ==
    {Row(<<"Item", "2023", "2022">>), Row(<<"Item", "Note", "2023">>),
     Row(<<"Item", "\fFY2023 ", "Note", "FY2022">>),
     Row(<<"Item", "Year 2023", "Year 2023">>), Row(<<"Item", "Amount">>)}

StatementRowSets ==
    {Table(<< <<"Total assets", "5", "100", "90">>, <<"Cash", "1", "2", "3">> >>),
     Table(<< <<"Net income", "7">>, <<" Total\f", "(3)", "-", "abc">>,
              <<"Total", "4", "5", "6">> >>),
     << <<Cell("Operating activities"), NoneCell, Cell("1M"), Cell("2.01M")>>, <<>>,
        <<NoneCell, Cell("1"), Cell("2"), Cell("3")>> >>,
     <<>>}

StatementTables ==
    {<<h>> \o rows : h \in StatementHeaders, rows \in StatementRowSets} \cup {<<>>}

StatementTexts ==
    {"Consolidated Balance Sheet", "Statement of Financial Position\nIncome Statement",
     "STATEMENT OF OPERATIONS\nCash Flow", "P&L and invoice", "Cash flow\nBill To:",
     "Invoice", "Notes to the accounts"}

\* every table under a balance sheet text, two tables under every text
StatementPages ==
    {TablePage("Consolidated Balance Sheet", <<t>>) : t \in StatementTables}
    \cup {TablePage(x, <<t>>) :
              x \in StatementTexts,
              t \in {Table(<< <<"Item", "Note", "2023">>, <<"Total assets", "5", "100", "90">>,
                              <<"Cash", "1", "2", "3">> >>),
                     Table(<< <<"Item", "2023", "2022">>, <<"Net income", "7">>,
                              <<"Total", "4", "5", "6">> >>)}}
    \cup {TablePage(x, <<>>) : x \in StatementTexts}
    \cup {TablePage("Bill to: ACME",
                    << Table(<< <<"Item", "2023">>, <<"Subtotal", "5">> >>),
                       Table(<< <<"Item", "Qty", "2024">>, <<"Total", "2", "9">> >>) >>)}

StatementDocs == SeqsUpTo(StatementPages, MaxStatementPages)

InitStatements ==
    /\ pc = "scan"
    /\ args \in {[doc |-> d] : d \in StatementDocs}
    /\ local = [page_num |-> 0, statements |-> <<>>]
    /\ ret = NoResult

\* one iteration of "for page_num, page in enumerate(doc)"
StatementsScanPage ==
    /\ pc = "scan"
    /\ local.page_num < Len(args.doc)
    /\ local' = [local EXCEPT
                    !.page_num = local.page_num + 1,
                    !.statements = local.statements
                        \o PageStatements(args.doc[local.page_num + 1], local.page_num)]
    /\ UNCHANGED <<pc, args, ret>>

\* doc.close() and the return of the statements
StatementsReturn ==
    /\ pc = "scan"
    /\ local.page_num = Len(args.doc)
    /\ ret' = [success |-> TRUE, payload |-> local.statements, error |-> NoneCell]
    /\ pc' = "done"
    /\ UNCHANGED <<args, local>>

NextStatements == StatementsScanPage \/ StatementsReturn

SpecStatements == InitStatements /\ [][NextStatements]_vars

\* the columns (1-based) of the header row in which a period is detected
PeriodColumns(table_data) ==
    {c \in 1..Len(table_data[1]) : HasYear(Str(table_data[1][c]))}

\* the row recorded under name: the last row of the table with that label
RecordedRow(table_data, name) ==
    table_data[SetMax({r \in 2..Len(table_data) :
                          /\ Len(table_data[r]) > 0
                          /\ Strip(Str(table_data[r][1])) = name})]

\* C7: in extract_financial_statements every key item row records one value per
\* detected period column, and the value recorded for a period is the normalised
\* content of the row's cell in the column of the header cell in which the
\* period was detected, wherever the period columns stand in the header.
C7_ValueFromThePeriodColumn ==
    pc = "done" =>
        \A s \in 1..Len(ret.payload) :
            LET st == ret.payload[s]
            IN  \A name \in DOMAIN st.key_items :
                    LET row == RecordedRow(st.table_data, name)
                        values == st.key_items[name]
                    IN  \A c \in PeriodColumns(st.table_data) :
                            c <= Len(row) =>
                                LET period == Strip(Str(st.table_data[1][c]))
                                IN  /\ period \in DOMAIN values
                                    /\ values[period] = parse_currency(row[c])

\* the phrase groups in their fixed order, each with the type it gives
PhraseGroups ==
    << <<"Balance Sheet", {"balance sheet", "statement of financial position"}>>,
       <<"Income Statement", {"income statement", "statement of operations", "p&l"}>>,
       <<"Cash Flow Statement", {"cash flow"}>>,
       <<"Invoice", {"invoice", "bill to"}>> >>

\* the groups (by index) with a phrase in the text of the page
MatchingGroups(page) ==
    {g \in 1..Len(PhraseGroups) :
        \E phrase \in PhraseGroups[g][2] : Occurrences(Lower(get_text(page)), phrase) # {}}

\* type and page of the statements the pages p.. of a document are to give: one
\* per table of a page that matches a group, with the type of the earliest group
RECURSIVE ExpectedTypes(_, _)
ExpectedTypes(doc, p) ==
    IF p > Len(doc) THEN <<>>
    ELSE (IF MatchingGroups(doc[p]) = {} THEN <<>>
          ELSE [t \in 1..Len(doc[p].tables) |->
                   [type |-> PhraseGroups[SetMin(MatchingGroups(doc[p]))][1],
                    page |-> p]])
         \o ExpectedTypes(doc, p + 1)

\* C14: a page is labelled by the first matching phrase group in the fixed
\* order Balance Sheet, Income Statement, Cash Flow Statement, Invoice (a page
\* with phrases of several groups gets the earliest group's type), every table
\* of that page is reported with that type, and a page matching no group
\* contributes no statement even when it contains tables.
C14_EarliestGroupLabelsThePage ==
    pc = "done" =>
        [i \in 1..Len(ret.payload) |->
            [type |-> ret.payload[i].type, page |-> ret.payload[i].page]]
        = ExpectedTypes(args.doc, 1)

\* the statement returned for the one table of a page whose text has phrases of
\* the Income Statement group and of a later group
C14_Witness ==
    /\ pc = "done"
    /\ Len(args.doc) = 1
    /\ Cardinality(MatchingGroups(args.doc[1])) >= 2
    /\ Len(ret.payload) = 1
    /\ ret.payload[1].type = "Income Statement"

(***************************************************************************)
(* check_required_signatures                                               *)
(*                                                                         *)
(* A widget is [field_type, field_name], the field name a str or NoneCell. *)
(* The argument invoice_amount is a float or None.                         *)
(***************************************************************************)
PDF_WIDGET_TYPE_SIGNATURE == 6

\* widget.field_name or "Unknown"
SignerOf(widget) ==
    IF widget.field_name.none \/ widget.field_name.text = "" THEN "Unknown"
    ELSE widget.field_name.text

\* the digital signature entries of the widgets of a page, from the widget i on
RECURSIVE DigitalSignatures(_, _, _)
DigitalSignatures(widgets, i, page_num) ==
    IF i > Len(widgets) THEN <<>>
    ELSE (IF widgets[i].field_type = PDF_WIDGET_TYPE_SIGNATURE
          THEN << [type |-> "digital_signature",
                   signer |-> SignerOf(widgets[i]),
                   page |-> page_num + 1,
                   excerpt |-> "Digital signature field: " \o Str(widgets[i].field_name)] >>
          ELSE <<>>)
             \o DigitalSignatures(widgets, i + 1, page_num)

signature_keywords ==
    << <<"CFO", "CFO">>,
       <<"CEO", "CEO">>,
       <<"Chief Financial Officer", "CFO">>,
       <<"Chief Executive Officer", "CEO">>,
       <<"Chief Accounting Officer", "CAO">>,
       <<"signed by", "Authorized Signer">>,
       <<"approved by", "Approver">>,
       <<"certified by", "Certifier">> >>

SignatureBefore == 50

SignatureAfter == 100

\* "already_found": an entry of found_signatures with this role and page
AlreadyFound(found_signatures, role, page_no) ==
    \E i \in 1..Len(found_signatures) :
        found_signatures[i].signer = role /\ found_signatures[i].page = page_no

\* the loop over signature_keywords on the text of a page, from the keyword k on;
\* text_lower is text.lower()
RECURSIVE TextMentions(_, _, _, _, _)
TextMentions(found_signatures, text, text_lower, k, page_num) ==
    IF k > Len(signature_keywords) THEN found_signatures
    ELSE LET keyword == signature_keywords[k][1]
             role == signature_keywords[k][2]
             pos == Find(text_lower, Lower(keyword))
             excerpt == Slice(text, Max2(0, pos - SignatureBefore),
                              Min2(Len(text), pos + SignatureAfter))
             next ==
                 IF pos # -1 /\ ~AlreadyFound(found_signatures, role, page_num + 1)
                 THEN Append(found_signatures,
                             [type |-> "text_mention",
                              signer |-> role,
                              page |-> page_num + 1,
                              excerpt |-> Strip(excerpt)])
                 ELSE found_signatures
         IN  TextMentions(next, text, text_lower, k + 1, page_num)

\* found_signatures after the page page_num (0-based) is scanned
ScanSignatures(found_signatures, page, page_num) ==
    TextMentions(found_signatures \o DigitalSignatures(page.widgets, 1, page_num),
                 get_text(page), Lower(get_text(page)), 1, page_num)

ApprovalThreshold == Float(1, 4)

\* the required signatures with an approver required from the threshold on
required_signatures_FromThreshold(doc_type, invoice_amount) ==
    IF doc_type = "SOX 404" THEN <<"CFO Certification", "CEO Certification">>
    ELSE IF doc_type = "10-K" THEN <<"CEO Signature", "CFO Signature", "CAO Signature">>
    ELSE IF doc_type = "8-K" THEN <<"Authorized Signer">>
    ELSE IF doc_type = "Invoice"
         THEN IF Truthy(invoice_amount) /\ ~FGt(ApprovalThreshold, invoice_amount)
              THEN <<"Authorized Approver">>
              ELSE <<>>
    ELSE <<>>

required_signatures(doc_type, invoice_amount) ==
    IF doc_type = "SOX 404" THEN <<"CFO Certification", "CEO Certification">>
    ELSE IF doc_type = "10-K" THEN <<"CEO Signature", "CFO Signature", "CAO Signature">>
    ELSE IF doc_type = "8-K" THEN <<"Authorized Signer">>
    ELSE IF doc_type = "Invoice"
         THEN IF Truthy(invoice_amount) /\ FGt(invoice_amount, ApprovalThreshold)
              THEN <<"Authorized Approver">>
              ELSE <<>>
    ELSE <<>>

\* the words of s.split(), as a set
SplitWords(s) ==
    {SubSeq(s, a, b) : <<a, b>> \in
        {<<a, b>> \in (1..Len(s)) \X (1..Len(s)) :
            /\ a <= b
            /\ \A i \in a..b : ~IsSpace(Char(s, i))
            /\ (a = 1 \/ IsSpace(Char(s, a - 1)))
            /\ (b = Len(s) \/ IsSpace(Char(s, b + 1)))}}

\* "any(keyword in role.upper() for keyword in required.upper().split())"
RoleSatisfies(role, required) ==
    \E keyword \in SplitWords(Upper(required)) : Contains(Upper(role), keyword)

\* the required signatures no found role satisfies, in the order of required
missing_signatures(required, found_signatures) ==
    SelectSeq(required,
              LAMBDA r : ~\E i \in 1..Len(found_signatures) :
                              RoleSatisfies(found_signatures[i].signer, r))

SignatureReport(doc_type, invoice_amount, found_signatures) ==
    LET required == required_signatures(doc_type, invoice_amount)
        missing == missing_signatures(required, found_signatures)
    IN  [doc_type |-> doc_type,
         invoice_amount |-> invoice_amount,
         required_signatures |-> required,
         found_signatures |-> found_signatures,
         missing_signatures |-> missing,
         compliance_status |-> IF Len(missing) = 0 THEN "COMPLETE" ELSE "INCOMPLETE"]

(***************************************************************************)
(* SpecSignatures: check_required_signatures on the documents made of      *)
(* SignaturePages, one page scanned per step.                              *)
(***************************************************************************)
SignatureField(name) == [field_type |-> PDF_WIDGET_TYPE_SIGNATURE, field_name |-> name]

OtherField(name) == [field_type |-> PDF_WIDGET_TYPE_SIGNATURE + 1, field_name |-> name]

SignatureWidgets ==
    {<<>>,
     <<SignatureField(Cell("Signature1")), SignatureField(Cell("<None>"))>>,
     <<SignatureField(NoneCell), OtherField(Cell("CEO")), SignatureField(Cell(""))>>,
     <<SignatureField(Cell("CEO")), SignatureField(Cell("Designer"))>>,
     <<SignatureField(Cell("Chief Approver"))>>}

SignatureTexts ==
    {"Annual report",
     "Signed by: J. Doe, CEO",
     "Approved by the chief financial officer\nand the Chief Accounting Officer (CFO, CAO)",
     Repeat("x", 70) \o " certified by the Chief Executive Officer " \o Repeat("y", 120)}

SignaturePage(text, widgets) == [text |-> text, tables |-> <<>>, widgets |-> widgets]

SignaturePages == {SignaturePage(x, w) : x \in SignatureTexts, w \in SignatureWidgets}

SignatureDocs ==
    SeqsUpTo(SignaturePages, MaxSignaturePages)
    \cup {<<SignaturePage("Signed by the CEO", <<SignatureField(Cell("CFO"))>>),
            SignaturePage("signed by the ceo", <<SignatureField(Cell("CFO"))>>)>>}

DocTypes == {"SOX 404", "10-K", "8-K", "Invoice", "Memo"}

InvoiceAmounts == {None, Zero, Float(1, 4), Float(1000001, -2)}

InitSignatures ==
    /\ pc = "scan"
    /\ args \in {[doc |-> d, doc_type |-> t, invoice_amount |-> a] :
                    d \in SignatureDocs, t \in DocTypes, a \in InvoiceAmounts}
    /\ local = [page_num |-> 0, found_signatures |-> <<>>]
    /\ ret = NoResult

\* one iteration of "for page_num, page in enumerate(doc)"
SignaturesScanPage ==
    /\ pc = "scan"
    /\ local.page_num < Len(args.doc)
    /\ local' = [local EXCEPT
                    !.page_num = local.page_num + 1,
                    !.found_signatures =
                        ScanSignatures(local.found_signatures,
                                       args.doc[local.page_num + 1], local.page_num)]
    /\ UNCHANGED <<pc, args, ret>>

\* the required and missing signatures, doc.close() and the return of the report
SignaturesReturn ==
    /\ pc = "scan"
    /\ local.page_num = Len(args.doc)
    /\ ret' = [success |-> TRUE,
               payload |-> SignatureReport(args.doc_type, args.invoice_amount,
                                           local.found_signatures),
               error |-> NoneCell]
    /\ pc' = "done"
    /\ UNCHANGED <<args, local>>

NextSignatures == SignaturesScanPage \/ SignaturesReturn

SpecSignatures == InitSignatures /\ [][NextSignatures]_vars

\* C8: after check_required_signatures has scanned any sequence of pages, no two
\* entries of found_signatures (digital or textual) share the same (role, page).
C8_NoDuplicateRoleAndPage ==
    \A i, j \in 1..Len(local.found_signatures) :
        i # j =>
            ~(/\ local.found_signatures[i].signer = local.found_signatures[j].signer
              /\ local.found_signatures[i].page = local.found_signatures[j].page)

\* some whole word of the required label is a whole word of the role (upper case)
SharesWord(role, required) ==
    SplitWords(Upper(required)) \cap SplitWords(Upper(role)) # {}

\* C9: compliance_status is COMPLETE if and only if every required signature
\* label shares at least one whole upper case word with some found role; a role
\* that only contains a required word inside a longer word, or shares none, does
\* not satisfy the requirement.
C9_CompleteIffWordsShared ==
    pc = "done" =>
        (ret.payload.compliance_status = "COMPLETE"
            <=> \A r \in 1..Len(ret.payload.required_signatures) :
                    \E i \in 1..Len(ret.payload.found_signatures) :
                        SharesWord(ret.payload.found_signatures[i].signer,
                                   ret.payload.required_signatures[r]))

\* the required signatures of the document types other than Invoice
StaticRequired(doc_type) ==
    IF doc_type = "SOX 404" THEN <<"CFO Certification", "CEO Certification">>
    ELSE IF doc_type = "10-K" THEN <<"CEO Signature", "CFO Signature", "CAO Signature">>
    ELSE IF doc_type = "8-K" THEN <<"Authorized Signer">>
    ELSE <<>>

\* C16: the required-signature set is a function of the document type alone,
\* except for Invoice: an Invoice requires exactly the one signature
\* "Authorized Approver" when a supplied invoice amount is strictly greater than
\* 10,000, and requires no signature (so compliance_status is COMPLETE whatever
\* the document contains) when the amount is absent or at most 10,000.
C16_RequiredByTypeAndAmount ==
    pc = "done" =>
        IF args.doc_type # "Invoice"
        THEN ret.payload.required_signatures = StaticRequired(args.doc_type)
        ELSE IF args.invoice_amount # None /\ FGt(args.invoice_amount, Float(10000, 0))
        THEN ret.payload.required_signatures = <<"Authorized Approver">>
        ELSE /\ ret.payload.required_signatures = <<>>
             /\ ret.payload.compliance_status = "COMPLETE"

\* the report for an Invoice of exactly 10,000 on a document without any
\* signature: nothing required, COMPLETE
C16_Witness ==
    /\ pc = "done"
    /\ args.doc_type = "Invoice"
    /\ args.invoice_amount = Float(10000, 0)
    /\ Len(args.doc) = 1
    /\ ret.payload.found_signatures = <<>>
    /\ ret.payload.required_signatures = <<>>
    /\ ret.payload.compliance_status = "COMPLETE"

(***************************************************************************)
(* detect_compliance_red_flags                                             *)
(***************************************************************************)
\* the phrases, in the order of the dict, each with its type and severity
red_flag_phrases ==
    << <<"going concern", "going_concern", "critical">>,
       <<"material weakness", "material_weakness", "critical">>,
       <<"restatement", "restatement", "critical">>,
       <<"significant deficiency", "significant_deficiency", "high">>,
       <<"qualified opinion", "qualified_opinion", "high">>,
       <<"adverse opinion", "adverse_opinion", "high">>,
       <<"related party transaction", "related_party", "medium">>,
       <<"related party", "related_party", "medium">>,
       <<"subsequent event", "subsequent_event", "medium">>,
       <<"contingent liability", "contingent_liability", "medium">> >>

context_keywords == <<"note ", "item ", "section ">>

FlagBefore == 100

FlagAfter == 300

\* the loop over context_keywords, from the keyword k on: the first keyword that
\* occurs before pos and is followed by a line break gives the context
RECURSIVE ContextFrom(_, _, _, _)
ContextFrom(text, text_lower, pos, k) ==
    IF k > Len(context_keywords) THEN "Unknown section"
    ELSE LET context_pos == RFind(text_lower, context_keywords[k], pos)
             context_end == IF context_pos = -1 THEN -1
                            ELSE FindFrom(text, "\n", context_pos)
         IN  IF context_pos # -1 /\ context_end # -1
             THEN Strip(Slice(text, context_pos, context_end))
             ELSE ContextFrom(text, text_lower, pos, k + 1)

\* "already_flagged": an entry of red_flags with this phrase and page
AlreadyFlagged(red_flags, phrase, page_no) ==
    \E i \in 1..Len(red_flags) :
        red_flags[i].phrase = phrase /\ red_flags[i].page = page_no

\* the loop over red_flag_phrases on the text of a page, from the phrase k on
RECURSIVE ScanFlags(_, _, _, _, _)
ScanFlags(red_flags, text, text_lower, k, page_num) ==
    IF k > Len(red_flag_phrases) THEN red_flags
    ELSE LET phrase == red_flag_phrases[k][1]
             pos == Find(text_lower, phrase)
             excerpt == Slice(text, Max2(0, pos - FlagBefore),
                              Min2(Len(text), pos + FlagAfter))
             next ==
                 IF pos # -1 /\ ~AlreadyFlagged(red_flags, phrase, page_num + 1)
                 THEN Append(red_flags,
                             [phrase |-> phrase,
                              type |-> red_flag_phrases[k][2],
                              severity |-> red_flag_phrases[k][3],
                              page |-> page_num + 1,
                              excerpt |-> Strip(excerpt),
                              context |-> ContextFrom(text, text_lower, pos, 1)])
                 ELSE red_flags
         IN  ScanFlags(next, text, text_lower, k + 1, page_num)

CountSeverity(red_flags, severity) ==
    Cardinality({i \in 1..Len(red_flags) : red_flags[i].severity = severity})

FlagSummary(red_flags) ==
    [total_flags |-> Len(red_flags),
     critical |-> CountSeverity(red_flags, "critical"),
     high |-> CountSeverity(red_flags, "high"),
     medium |-> CountSeverity(red_flags, "medium")]

(***************************************************************************)
(* SpecFlags: detect_compliance_red_flags on the documents made of         *)
(* FlagPages, one page scanned per step.                                   *)
(***************************************************************************)
FlagPages ==
    {TextPage("Annual report\nNote 1 General\n"),
     TextPage("Note 1 Summary\nSection 2 Liquidity\nSubstantial doubt about going concern\n"),
     TextPage("Item 9A Controls\nA material weakness was identified\n"),
     TextPage("Going Concern\nNote 5 follows\n"),
     TextPage("see note 3 for the going concern assessment"),
     TextPage("Section 4\nRelated party transaction and restatement"),
     TextPage("See Item 8 and Note 12: subsequent event\nContingent liability"),
     TextPage(Filler(150) \o "\nSECTION 7 Audit\n" \o Filler(120) \o " qualified opinion "
                  \o Filler(350))}

FlagDocs == SeqsUpTo(FlagPages, MaxFlagPages)

InitFlags ==
    /\ pc = "scan"
    /\ args \in {[doc |-> d] : d \in FlagDocs}
    /\ local = [page_num |-> 0, red_flags |-> <<>>]
    /\ ret = NoResult

\* one iteration of "for page_num, page in enumerate(doc)"
FlagsScanPage ==
    /\ pc = "scan"
    /\ local.page_num < Len(args.doc)
    /\ LET text == get_text(args.doc[local.page_num + 1])
       IN  local' = [local EXCEPT
                        !.page_num = local.page_num + 1,
                        !.red_flags = ScanFlags(local.red_flags, text, Lower(text), 1,
                                                local.page_num)]
    /\ UNCHANGED <<pc, args, ret>>

\* doc.close(), the summary and the return of the red flags
FlagsReturn ==
    /\ pc = "scan"
    /\ local.page_num = Len(args.doc)
    /\ ret' = [success |-> TRUE,
               payload |-> [red_flags |-> local.red_flags,
                            summary |-> FlagSummary(local.red_flags)],
               error |-> NoneCell]
    /\ pc' = "done"
    /\ UNCHANGED <<args, local>>

NextFlags == FlagsScanPage \/ FlagsReturn

SpecFlags == InitFlags /\ [][NextFlags]_vars

\* the starts (0-based) of the context tokens that end at or before pos
TokensBefore(text_lower, pos) ==
    UNION {{i \in Occurrences(text_lower, context_keywords[k]) :
               i + Len(context_keywords[k]) <= pos} : k \in 1..Len(context_keywords)}

\* the line breaks (0-based) at or after start
LineBreaksFrom(text, start) == {i \in Occurrences(text, "\n") : i >= start}

\* C10: the context of a finding is the text from the nearest preceding
\* occurrence (the one closest before the matched phrase) of any of the tokens
\* "note ", "item ", "section " up to the next line break, and is "Unknown
\* section" exactly when none of these tokens precedes the match on the page.
C10_ContextIsNearestToken ==
    pc = "done" =>
        \A f \in 1..Len(ret.payload.red_flags) :
            LET flag == ret.payload.red_flags[f]
                text == get_text(args.doc[flag.page])
                pos == SetMin(Occurrences(Lower(text), flag.phrase))
                tokens == TokensBefore(Lower(text), pos)
            IN  IF tokens = {} THEN flag.context = "Unknown section"
                ELSE LET nearest == SetMax(tokens)
                         breaks == LineBreaksFrom(text, nearest)
                     IN  /\ flag.context # "Unknown section"
                         /\ breaks # {} =>
                                flag.context = Strip(SubSeq(text, nearest + 1, SetMin(breaks)))

(***************************************************************************)
(* extract_comparative_periods                                             *)
(***************************************************************************)
\* the starts (1-based) of the matches of r"(20\d{2})" in s
YearStarts(s) ==
    {i \in 1..(Len(s) - 3) :
        /\ SubSeq(s, i, i + 1) = "20"
        /\ IsDigit(Char(s, i + 2))
        /\ IsDigit(Char(s, i + 3))}

\* match.group(1) of re.search(r"(20\d{2})", s), for s with a match
YearOf(s) == LET i == SetMin(YearStarts(s)) IN SubSeq(s, i, i + 3)

\* the dict period_indices of a header row: year -> column (0-based), a later
\* column of the same year overwrites an earlier one
period_indices(header) ==
    LET cols == {c \in 1..Len(header) : YearStarts(Str(header[c])) # {}}
        years == {YearOf(Str(header[c])) : c \in cols}
    IN  [y \in years |-> SetMax({c \in cols : YearOf(Str(header[c])) = y}) - 1]

\* the order of two year strings "20dd": that of their last two digits
YearNumber(y) == 10 * DigitValue(Char(y, 3)) + DigitValue(Char(y, 4))

\* sorted(years): the ascending order
RECURSIVE sorted_periods_ascending(_)
sorted_periods_ascending(years) ==
    IF years = {} THEN <<>>
    ELSE LET low == CHOOSE y \in years : \A z \in years : YearNumber(y) <= YearNumber(z)
         IN  <<low>> \o sorted_periods_ascending(years \ {low})

\* sorted(years, reverse=True)
RECURSIVE sorted_periods(_)
sorted_periods(years) ==
    IF years = {} THEN <<>>
    ELSE LET top == CHOOSE y \in years : \A z \in years : YearNumber(z) <= YearNumber(y)
         IN  <<top>> \o sorted_periods(years \ {top})

\* the dict periods_data of a row: the periods whose cell exists and parses
periods_data(indices, row) ==
    LET Kept(val) == [y \in {z \in DOMAIN val : val[z] # None} |-> val[y]]
    IN  Kept([y \in DOMAIN indices |->
                 IF indices[y] < Len(row) THEN parse_currency(row[indices[y] + 1])
                 ELSE None])

MaterialPercent == 10

MaterialAmount == Float(1, 5)

\* ((curr_val - prev_val) / abs(prev_val)) * 100, or None for prev_val == 0
PercentChange(curr_val, prev_val) ==
    IF IsZero(prev_val) THEN None
    ELSE FScale(FDiv(FSub(curr_val, prev_val), FAbs(prev_val)), 2)

\* the entry of changes with material decided on the rounded percent and amount
ChangeOnRounded(curr_val, prev_val) ==
    LET Entry(abs_change, pct_change) ==
            [absolute |-> Round2(abs_change),
             percent |-> IF pct_change = None THEN None ELSE Round2(pct_change),
             material |-> \/ (/\ pct_change # None
                              /\ FGt(FAbs(Round2(pct_change)), Float(MaterialPercent, 0)))
                          \/ FGt(FAbs(Round2(abs_change)), MaterialAmount),
             direction |-> IF FGt(abs_change, Zero) THEN "increase" ELSE "decrease"]
    IN  Entry(FSub(curr_val, prev_val), PercentChange(curr_val, prev_val))

\* the entry of changes with equal values reported as an increase
ChangeIncreaseOnEqual(curr_val, prev_val) ==
    LET Entry(abs_change, pct_change) ==
            [absolute |-> Round2(abs_change),
             percent |-> IF pct_change = None THEN None ELSE Round2(pct_change),
             material |-> \/ (/\ pct_change # None
                              /\ FGt(FAbs(pct_change), Float(MaterialPercent, 0)))
                          \/ FGt(FAbs(abs_change), MaterialAmount),
             direction |-> IF FGt(Zero, abs_change) THEN "decrease" ELSE "increase"]
    IN  Entry(FSub(curr_val, prev_val), PercentChange(curr_val, prev_val))

\* the entry of changes for one pair of periods
Change(curr_val, prev_val) ==
    LET Entry(abs_change, pct_change) ==
            [absolute |-> Round2(abs_change),
             percent |-> IF pct_change = None THEN None ELSE Round2(pct_change),
             material |-> \/ (/\ pct_change # None
                              /\ FGt(FAbs(pct_change), Float(MaterialPercent, 0)))
                          \/ FGt(FAbs(abs_change), MaterialAmount),
             direction |-> IF FGt(abs_change, Zero) THEN "increase" ELSE "decrease"]
    IN  Entry(FSub(curr_val, prev_val), PercentChange(curr_val, prev_val))

ChangeKey(current, previous) == current \o "_vs_" \o previous

\* the dict changes of a row: one entry per pair of neighbours of sorted whose
\* values are both in data
Changes(sorted, data) ==
    LET pairs == {i \in 1..(Len(sorted) - 1) :
                     sorted[i] \in DOMAIN data /\ sorted[i + 1] \in DOMAIN data}
    IN  [k \in {ChangeKey(sorted[i], sorted[i + 1]) : i \in pairs} |->
            LET i == CHOOSE j \in pairs : ChangeKey(sorted[j], sorted[j + 1]) = k
            IN  Change(data[sorted[i]], data[sorted[i + 1]])]

\* what one row after the header adds to comparative_data
RowComparison(indices, row, page_num) ==
    LET Entry(metric, data, changes) ==
            IF DOMAIN changes = {} THEN <<>>
            ELSE << [metric |-> metric,
                     page |-> page_num + 1,
                     periods |-> data,
                     changes |-> changes] >>
        Compared(metric, data) ==
            IF Cardinality(DOMAIN data) < 2 THEN <<>>
            ELSE Entry(metric, data, Changes(sorted_periods(DOMAIN indices), data))
        Named(metric) == IF Len(metric) < 3 THEN <<>>
                         ELSE Compared(metric, periods_data(indices, row))
    IN  IF Len(row) < 2 THEN <<>>
        ELSE Named(Strip(Str(row[1])))

\* the rows loop of one table, from the row r (1-based) on
RECURSIVE RowComparisons(_, _, _, _)
RowComparisons(indices, table_data, r, page_num) ==
    IF r > Len(table_data) THEN <<>>
    ELSE RowComparison(indices, table_data[r], page_num)
             \o RowComparisons(indices, table_data, r + 1, page_num)

\* what one table adds to comparative_data
TableComparisons(table_data, page_num) ==
    IF Len(table_data) < 2 THEN <<>>
    ELSE LET indices == period_indices(table_data[1])
         IN  IF Cardinality(DOMAIN indices) < 2 THEN <<>>
             ELSE RowComparisons(indices, table_data, 2, page_num)

\* the tables loop of one page, from the table t (1-based) on
RECURSIVE PageComparisons(_, _, _)
PageComparisons(page, page_num, t) ==
    IF t > Len(page.tables) THEN <<>>
    ELSE TableComparisons(page.tables[t], page_num) \o PageComparisons(page, page_num, t + 1)

(***************************************************************************)
(* SpecCompare: extract_comparative_periods on the documents made of       *)
(* ComparePages, one page scanned per step.                                *)
(***************************************************************************)
CompareHeaders ==
    {Row(<<"Item", "2023", "2022">>),
     Row(<<"Item", "FY2021", "FY2023", "FY2022">>),
     Row(<<"Item", "2023", "Note", "2023">>),
     Row(<<"Item", "2023", "2023", "2022">>),
     Row(<<"2021 Item", "2023">>),
     Row(<<"Item", "Amount">>)}

CompareRows ==
    {Row(<<"Revenue", "120", "100">>),
     Row(<<"Revenue", "100", "0", "50">>),
     Row(<<"Cost", "100", "100", "(100)">>),
     Row(<<"Debt", "250,000", "100,000">>),
     Row(<<"Cash", "1,200,000", "1,100,000", "1,200,001">>),
     Row(<<"Fee", "110.004", "100">>),
     Row(<<"Charge", "100.004", "100", "100">>),
     Row(<<"Rate", "1.1", "1", "(0)">>),
     Row(<<"Tax", "90", "100", "abc">>),
     Row(<<"Loss", "(50)", "(100)", "-">>),
     Row(<<"Gap", "1", "abc", "3">>),
     Row(<<"Margin", "abc", "100">>),
     Row(<<"AB", "1", "2">>),
     Row(<<"\fx  ", "3", "4", "5">>),
     <<NoneCell, Cell("1"), Cell("2")>>,
     Row(<<"1000", "1250">>),
     Row(<<"Net", "5">>),
     Row(<<"Solo">>),
     <<>>}

\* every row under the headers of two and of three years, the first rows under
\* the other headers
CompareTables ==
    {<<h, r>> : h \in {Row(<<"Item", "2023", "2022">>),
                       Row(<<"Item", "FY2021", "FY2023", "FY2022">>)},
                r \in CompareRows}
    \cup {<<h, r>> : h \in CompareHeaders,
                     r \in {Row(<<"Revenue", "120", "100">>),
                            Row(<<"Revenue", "100", "0", "50">>),
                            Row(<<"Cost", "100", "100", "(100)">>),
                            Row(<<"Charge", "100.004", "100", "100">>)}}
    \cup {<<>>,
          Table(<< <<"Item", "2023", "2022">> >>),
          Table(<< <<"Item", "2023", "2022">>, <<"Revenue", "120", "100">>,
                   <<"AB", "1", "2">>, <<"Revenue", "90", "100">> >>)}

ComparePages ==
    {TablePage("Comparative figures", <<t>>) : t \in CompareTables}
    \cup {TablePage("Comparative figures", <<>>),
          TablePage("Comparative figures",
                    << Table(<< <<"Item", "2023", "2022">>, <<"Tax", "90", "100">> >>),
                       Table(<< <<"Item", "2024", "2023">>, <<"Tax", "99", "90">> >>) >>)}

CompareDocs == SeqsUpTo(ComparePages, MaxComparePages)

InitCompare ==
    /\ pc = "scan"
    /\ args \in {[doc |-> d] : d \in CompareDocs}
    /\ local = [page_num |-> 0, comparative_data |-> <<>>]
    /\ ret = NoResult

\* one iteration of "for page_num, page in enumerate(doc)"
CompareScanPage ==
    /\ pc = "scan"
    /\ local.page_num < Len(args.doc)
    /\ local' = [local EXCEPT
                    !.page_num = local.page_num + 1,
                    !.comparative_data =
                        local.comparative_data
                            \o PageComparisons(args.doc[local.page_num + 1],
                                               local.page_num, 1)]
    /\ UNCHANGED <<pc, args, ret>>

\* doc.close() and the return of comparative_data
CompareReturn ==
    /\ pc = "scan"
    /\ local.page_num = Len(args.doc)
    /\ ret' = [success |-> TRUE,
               payload |-> [comparative_data |-> local.comparative_data],
               error |-> NoneCell]
    /\ pc' = "done"
    /\ UNCHANGED <<args, local>>

NextCompare == CompareScanPage \/ CompareReturn

SpecCompare == InitCompare /\ [][NextCompare]_vars

\* the change entries of comparative_data, each with the values of its current
\* and previous period in the record's periods
ChangeEntries(comparative_data) ==
    UNION {{[metric |-> comparative_data[i].metric,
             curr |-> comparative_data[i].periods[SubSeq(k, 1, 4)],
             prev |-> comparative_data[i].periods[SubSeq(k, 9, 12)],
             change |-> comparative_data[i].changes[k]] :
               k \in DOMAIN comparative_data[i].changes} :
           i \in 1..Len(comparative_data)}

\* the percent change of the entry, (curr - prev) / |prev| * 100 in floats and
\* before it is rounded, exceeds 10 in absolute value
PercentOverTen(x) ==
    FGt(FAbs(FScale(FDiv(FSub(x.curr, x.prev), FAbs(x.prev)), 2)), Float(10, 0))

\* C12 (as amended): every change entry has percent = null exactly when the
\* previous-period value is zero, and material = true exactly when the percent
\* change before rounding exceeds 10 in absolute value (previous value not zero)
\* or the absolute change before rounding exceeds 100,000 in absolute value;
\* absolute holds the change rounded to 2 decimals; 120 vs 100 gives percent
\* 20.0 and material, 100 vs 0 gives percent null and not material.
C12_MaterialOnUnroundedChange ==
    pc = "done" =>
        \A x \in ChangeEntries(ret.payload.comparative_data) :
            /\ (x.change.percent = None) <=> IsZero(x.prev)
            /\ x.change.material
                   <=> \/ (~IsZero(x.prev) /\ PercentOverTen(x))
                       \/ FGt(FAbs(FSub(x.curr, x.prev)), Float(1, 5))
            /\ x.change.absolute = Round2(FSub(x.curr, x.prev))
            /\ (x.curr = Float(120, 0) /\ x.prev = Float(100, 0))
                   => (x.change.percent = Float(20, 0) /\ x.change.material)
            /\ (x.curr = Float(100, 0) /\ IsZero(x.prev))
                   => (x.change.percent = None /\ ~x.change.material)

\* a returned record with a material change whose percent before rounding
\* exceeds 10 while the percent of the entry is 10.0 and the amount is small
C12_Witness ==
    /\ pc = "done"
    /\ \E x \in ChangeEntries(ret.payload.comparative_data) :
           /\ x.change.material
           /\ x.change.percent = Float(10, 0)
           /\ ~FGt(FAbs(x.change.absolute), Float(1, 5))

\* C12 (as stated): percent = null exactly when the previous-period value is
\* zero, and material = true exactly when (percent is not null and
\* |percent| > 10) or |absolute| > 100,000, on the fields of the entry.
C12_MaterialOnEntryFields ==
    pc = "done" =>
        \A x \in ChangeEntries(ret.payload.comparative_data) :
            /\ (x.change.percent = None) <=> IsZero(x.prev)
            /\ x.change.material
                   <=> \/ (/\ x.change.percent # None
                           /\ FGt(FAbs(x.change.percent), Float(10, 0)))
                       \/ FGt(FAbs(x.change.absolute), Float(1, 5))

\* the years of a header row whose value in the row is non-null
YearsWithValue(header, row) ==
    {y \in DOMAIN period_indices(header) :
        /\ period_indices(header)[y] < Len(row)
        /\ parse_currency(row[period_indices(header)[y] + 1]) # None}

\* the keys "current_vs_previous" of the pairs of years of the header that are
\* neighbours in the descending order of the years and both have a value in the row
NeighbourKeys(header, row) ==
    LET years == DOMAIN period_indices(header)
        valued == YearsWithValue(header, row)
    IN  {y1 \o "_vs_" \o y2 : <<y1, y2>> \in
            {q \in valued \X valued :
                /\ YearNumber(q[1]) > YearNumber(q[2])
                /\ ~\E z \in years : /\ YearNumber(z) < YearNumber(q[1])
                                     /\ YearNumber(z) > YearNumber(q[2])}}

\* the rows (1-based) of a table that may give a record: the table has a header
\* with at least 2 distinct years, the row comes after the header and has a
\* label of length >= 3
ComparableRows(table_data) ==
    IF Len(table_data) < 2 \/ Cardinality(DOMAIN period_indices(table_data[1])) < 2 THEN {}
    ELSE {r \in 2..Len(table_data) :
             /\ Len(table_data[r]) >= 1
             /\ Len(Strip(Str(table_data[r][1]))) >= 3}

\* metric, page and change keys the rows r.. of a table are to give, in row order
RECURSIVE ExpectedOfTable(_, _, _)
ExpectedOfTable(table_data, r, page_no) ==
    IF r > Len(table_data) THEN <<>>
    ELSE (IF /\ r \in ComparableRows(table_data)
             /\ Cardinality(YearsWithValue(table_data[1], table_data[r])) >= 2
             /\ NeighbourKeys(table_data[1], table_data[r]) # {}
          THEN << [metric |-> Strip(Str(table_data[r][1])),
                   page |-> page_no,
                   keys |-> NeighbourKeys(table_data[1], table_data[r])] >>
          ELSE <<>>)
         \o ExpectedOfTable(table_data, r + 1, page_no)

RECURSIVE ExpectedOfPage(_, _, _)
ExpectedOfPage(page, t, page_no) ==
    IF t > Len(page.tables) THEN <<>>
    ELSE ExpectedOfTable(page.tables[t], 2, page_no) \o ExpectedOfPage(page, t + 1, page_no)

RECURSIVE ExpectedOfDoc(_, _)
ExpectedOfDoc(doc, p) ==
    IF p > Len(doc) THEN <<>>
    ELSE ExpectedOfPage(doc[p], 1, p) \o ExpectedOfDoc(doc, p + 1)

\* C13: for every row with a label of length >= 3 in a table whose header has at
\* least 2 distinct years, the changes map contains an entry keyed
\* "current_vs_previous" exactly for each pair of years that are adjacent in the
\* descending sort of the header years and whose values are both non-null in
\* that row; a row with fewer than 2 non-null period values produces no record.
C13_ChangesForAdjacentYears ==
    pc = "done" =>
        LET data == ret.payload.comparative_data
        IN  [i \in 1..Len(data) |->
                [metric |-> data[i].metric, page |-> data[i].page,
                 keys |-> DOMAIN data[i].changes]]
            = ExpectedOfDoc(args.doc, 1)

\* a returned record of a table with three years whose last two years only have
\* a value: one change, for that pair
C13_Witness ==
    /\ pc = "done"
    /\ \E i \in 1..Len(ret.payload.comparative_data) :
           /\ DOMAIN ret.payload.comparative_data[i].periods = {"2022", "2021"}
           /\ DOMAIN ret.payload.comparative_data[i].changes = {"2022_vs_2021"}
    /\ Cardinality(DOMAIN period_indices(args.doc[1].tables[1][1])) = 3

\* C17: the direction of every change entry is "increase" exactly when the
\* absolute change (current value - previous value) is strictly positive and
\* "decrease" in every other case, so a pair of periods with equal values is
\* reported with direction "decrease".
C17_DirectionOfChange ==
    pc = "done" =>
        \A x \in ChangeEntries(ret.payload.comparative_data) :
            /\ x.change.direction = "increase" <=> FGt(x.curr, x.prev)
            /\ x.change.direction # "increase" => x.change.direction = "decrease"
            /\ FCmp(x.curr, x.prev) = 0 => x.change.direction = "decrease"

\* a returned record with a change between two equal values
C17_Witness ==
    /\ pc = "done"
    /\ \E x \in ChangeEntries(ret.payload.comparative_data) :
           /\ FCmp(x.curr, x.prev) = 0
           /\ x.change.absolute = Zero
           /\ x.change.direction = "decrease"

(***************************************************************************)
(* get_required_sections, find_regulatory_sections                         *)
(***************************************************************************)
Section(name, critical, search_terms) ==
    [name |-> name, critical |-> critical, search_terms |-> search_terms]

get_required_sections(doc_type) ==
    IF doc_type = "10-K" THEN
        << Section("Item 1: Business", FALSE, <<"item 1", "business">>),
           Section("Item 1A: Risk Factors", TRUE, <<"item 1a", "risk factors">>),
           Section("Item 7: MD&A", TRUE, <<"item 7", "management's discussion", "md&a">>),
           Section("Item 8: Financial Statements", TRUE,
                   <<"item 8", "financial statements">>),
           Section("Item 9A: Controls and Procedures", TRUE,
                   <<"item 9a", "controls and procedures">>) >>
    ELSE IF doc_type = "SOX 404" THEN
        << Section("IT General Controls", TRUE,
                   <<"it general controls", "itgc", "it controls">>),
           Section("Access Controls", TRUE, <<"access controls", "access management">>),
           Section("Change Management", FALSE, <<"change management", "change controls">>),
           Section("Management Assessment", TRUE,
                   <<"management assessment", "management certification">>) >>
    ELSE IF doc_type = "8-K" THEN
        << Section("Item 1.01: Material Agreements", TRUE,
                   <<"item 1.01", "material definitive agreement", "material agreement">>),
           Section("Item 2.01: Acquisition/Disposition", TRUE,
                   <<"item 2.01", "acquisition", "disposition of assets">>),
           Section("Item 5.02: Officer Changes", FALSE,
                   <<"item 5.02", "departure of directors", "officer changes">>),
           Section("Item 9.01: Financial Statements/Exhibits", TRUE,
                   <<"item 9.01", "financial statements and exhibits">>),
           Section("Filing Timeliness", TRUE,
                   <<"date of report", "date of earliest event">>) >>
    ELSE IF doc_type = "Invoice" THEN
        << Section("Invoice Number", TRUE,
                   <<"invoice number", "invoice #", "inv #", "invoice no">>),
           Section("Date", TRUE, <<"date", "invoice date">>),
           Section("Line Items", TRUE, <<"description", "line items", "item">>),
           Section("Total", TRUE, <<"total", "amount due", "balance due">>),
           Section("Payment Terms", FALSE,
                   <<"payment terms", "due date", "net 30", "net 60">>) >>
    ELSE <<>>

\* every missing section counted, critical or not
MissingAny(section, result) == ~result.found

\* "if section["critical"] and not result["found"]"
MissingCritical(section, result) == section.critical /\ ~result.found

\* the entry of sections_found for a section
SectionEntry(section, result) ==
    [required |-> TRUE,
     critical |-> section.critical,
     found |-> result.found,
     page |-> result.page,
     excerpt |-> result.excerpt]

(***************************************************************************)
(* SpecSections: find_regulatory_sections on the documents made of         *)
(* SectionPages, one required section searched per step.                   *)
(***************************************************************************)
SectionPages ==
    {TextPage("Item 1 Business\nItem 1A Risk Factors"),
     TextPage("ITEM 7 MD&A\nItem 8 Financial Statements\nItem 9A"),
     TextPage("ITGC and Access Management\nManagement Certification"),
     TextPage("Item 1.01\nAcquisition\nItem 9.01\nDate of Report"),
     TextPage("Invoice # 7\nDate: today\nDescription\nTotal due")}

SectionDocs == SeqsUpTo(SectionPages, MaxSectionPages)

SectionDocTypes == {"10-K", "SOX 404", "8-K", "Invoice", "Memo"}

InitSections ==
    /\ pc = "search"
    /\ args \in {[doc |-> d, doc_type |-> t] : d \in SectionDocs, t \in SectionDocTypes}
    /\ local = [required_sections |-> get_required_sections(args.doc_type),
                next |-> 1,
                sections_found |-> <<>>,
                missing_critical |-> <<>>]
    /\ ret = NoResult

\* one iteration of "for section in required_sections"
SearchSection ==
    /\ pc = "search"
    /\ local.next <= Len(local.required_sections)
    /\ LET section == local.required_sections[local.next]
           result == search_text_in_pdf(args.doc, section.search_terms)
       IN  local' = [local EXCEPT
                        !.next = local.next + 1,
                        !.sections_found =
                            [n \in DOMAIN local.sections_found \cup {section.name} |->
                                IF n = section.name THEN SectionEntry(section, result)
                                ELSE local.sections_found[n]],
                        !.missing_critical =
                            IF MissingCritical(section, result)
                            THEN Append(local.missing_critical, section.name)
                            ELSE local.missing_critical]
    /\ UNCHANGED <<pc, args, ret>>

\* doc.close(), the summary and the return of the report
SectionsReturn ==
    /\ pc = "search"
    /\ local.next > Len(local.required_sections)
    /\ ret' = [success |-> TRUE,
               payload |->
                   [doc_type |-> args.doc_type,
                    sections_found |-> local.sections_found,
                    summary |->
                        [total_required |-> Len(local.required_sections),
                         total_found |->
                             Cardinality({n \in DOMAIN local.sections_found :
                                             local.sections_found[n].found}),
                         missing_critical |-> local.missing_critical]],
               error |-> NoneCell]
    /\ pc' = "done"
    /\ UNCHANGED <<args, local>>

NextSections == SearchSection \/ SectionsReturn

SpecSections == InitSections /\ [][NextSections]_vars

\* some search term of the section occurs on some page of the document
SectionOccurs(section, doc) ==
    \E p \in 1..Len(doc) : \E i \in 1..Len(section.search_terms) :
        Occurrences(Lower(get_text(doc[p])), Lower(section.search_terms[i])) # {}

\* the names of the critical sections of the catalog, from the section i on, of
\* which no search term occurs in the document, in catalog order
RECURSIVE AbsentCritical(_, _, _)
AbsentCritical(catalog, i, doc) ==
    IF i > Len(catalog) THEN <<>>
    ELSE (IF catalog[i].critical /\ ~SectionOccurs(catalog[i], doc)
          THEN <<catalog[i].name>> ELSE <<>>)
         \o AbsentCritical(catalog, i + 1, doc)

\* C15: missing_critical contains exactly the names of the sections of the
\* requested document type that are marked critical and for which no search
\* term occurs on any page, in catalog order; a missing non-critical section
\* never appears in it, and an unknown document type yields a successful result
\* with total_required = 0 and an empty missing_critical.
C15_MissingCriticalSections ==
    pc = "done" =>
        /\ ret.payload.summary.missing_critical
               = AbsentCritical(get_required_sections(args.doc_type), 1, args.doc)
        /\ args.doc_type \notin {"10-K", "SOX 404", "8-K", "Invoice"}
               => /\ ret.success
                  /\ ret.payload.summary.total_required = 0
                  /\ ret.payload.summary.missing_critical = <<>>

\* a report with a missing non-critical section, a missing critical section and
\* a critical section found
C15_Witness ==
    /\ pc = "done"
    /\ \E n \in DOMAIN ret.payload.sections_found :
           ~ret.payload.sections_found[n].critical /\ ~ret.payload.sections_found[n].found
    /\ \E n \in DOMAIN ret.payload.sections_found :
           ret.payload.sections_found[n].critical /\ ret.payload.sections_found[n].found
    /\ ret.payload.summary.missing_critical # <<>>
    /\ Len(ret.payload.summary.missing_critical) + ret.payload.summary.total_found
           < ret.payload.summary.total_required

====
